---- MODULE Spec2Model ----
(***************************************************************************)
(* Retrieval of a user's journal / diary entries from the Aptos ledger and *)
(* its GraphQL indexer: address resolution, decoding of the BigOrderedMap  *)
(* (B+ tree) payload, unwrapping of the entry enum, and the final sort.    *)
(*                                                                         *)
(* JavaScript values are modelled as tagged records:                       *)
(*   undefined, null, booleans, numbers (integers), NaN, strings           *)
(*   (sequences of one-character strings), objects (functions from         *)
(*   property names to values) and arrays (sequences of values).           *)
(***************************************************************************)
EXTENDS Integers, Sequences, FiniteSets, TLC

(***************************************************************************)
(* JavaScript value layer                                                  *)
(***************************************************************************)
Undef == [t |-> "undef"]
Null == [t |-> "null"]
NaN == [t |-> "nan"]
Bool(b) == [t |-> "bool", v |-> b]
Num(n) == [t |-> "num", v |-> n]
Str(s) == [t |-> "str", v |-> s]
Obj(f) == [t |-> "obj", v |-> f]
Arr(a) == [t |-> "arr", v |-> a]

\* typeof x === "string", typeof x === "object" (null included), Array.isArray
IsString(x) == x.t = "str"
TypeofObject(x) == x.t \in {"obj", "arr", "null"}
IsArray(x) == x.t = "arr"
IsNullish(x) == x.t \in {"undef", "null"}

\* ToBoolean: the truthiness test of `if (x)`, `!x`, `a && b`
Truthy(x) ==
  CASE x.t \in {"undef", "null", "nan"} -> FALSE
    [] x.t = "bool" -> x.v
    [] x.t = "num" -> x.v # 0
    [] x.t = "str" -> Len(x.v) > 0
    [] OTHER -> TRUE

\* x?.f : property read with optional chaining (undefined on null/undefined,
\* undefined for a property that the value does not have)
Get(x, f) ==
  IF x.t = "obj" /\ f \in DOMAIN x.v THEN x.v[f] ELSE Undef

\* `f in x` for an object or array x
HasProp(x, f) == x.t = "obj" /\ f \in DOMAIN x.v

\* a && b
And(a, b) == IF Truthy(a) THEN b ELSE a

\* x === "literal"
StrEq(x, lit) == x.t = "str" /\ x.v = lit

\* String literals of the source, as character sequences
sLeaf == <<"L", "e", "a", "f">>
sMessageOnly == <<"M", "e", "s", "s", "a", "g", "e", "O", "n", "l", "y">>
sBPlusTreeMap == <<"B", "P", "l", "u", "s", "T", "r", "e", "e", "M", "a", "p">>
sNotFound == <<"n", "o", "t", " ", "f", "o", "u", "n", "d">>
s404 == <<"4", "0", "4">>
sNaN == <<"N", "a", "N">>

Digits == <<"0", "1", "2", "3", "4", "5", "6", "7", "8", "9">>
IsDigit(c) == \E i \in 1..10 : Digits[i] = c
DigitVal(c) == (CHOOSE i \in 1..10 : Digits[i] = c) - 1

\* s.includes(sub)
Includes(s, sub) ==
  \E i \in 0..(Len(s) - Len(sub)) :
    \A j \in 1..Len(sub) : s[i + j] = sub[j]

RECURSIVE SkipSpaces(_, _)
SkipSpaces(s, i) ==
  IF i <= Len(s) /\ s[i] = " " THEN SkipSpaces(s, i + 1) ELSE i

RECURSIVE ParseDigits(_, _, _)
\* value of the longest run of decimal digits of s starting at i
ParseDigits(s, i, acc) ==
  IF i <= Len(s) /\ IsDigit(s[i])
  THEN ParseDigits(s, i + 1, acc * 10 + DigitVal(s[i]))
  ELSE acc

\* parseInt(s, 10): leading blanks, an optional sign, then the longest run
\* of digits; NaN when there is no digit
parseInt(s) ==
  LET i == SkipSpaces(s, 1)
      neg == i <= Len(s) /\ s[i] = "-"
      j == IF i <= Len(s) /\ s[i] \in {"-", "+"} THEN i + 1 ELSE i
  IN IF j <= Len(s) /\ IsDigit(s[j])
     THEN Num((IF neg THEN -1 ELSE 1) * ParseDigits(s, j, 0))
     ELSE NaN

\* Number(x) for a value that is not a string
Number(x) ==
  CASE x.t = "num" -> x
    [] x.t = "bool" -> Num(IF x.v THEN 1 ELSE 0)
    [] x.t = "null" -> Num(0)
    [] x.t = "arr" /\ Len(x.v) = 0 -> Num(0)
    [] x.t = "arr" /\ Len(x.v) = 1 /\ x.v[1].t = "num" -> x.v[1]
    [] OTHER -> NaN

\* typeof k === "string" ? parseInt(k, 10) : Number(k)
CoerceKey(k) == IF IsString(k) THEN parseInt(k.v) ELSE Number(k)

RECURSIVE DecimalDigits(_)
DecimalDigits(n) ==
  IF n < 10 THEN <<Digits[n + 1]>>
  ELSE DecimalDigits(n \div 10) \o <<Digits[(n % 10) + 1]>>

\* The ledger's JSON encoding of a u64: its decimal string
U64ToString(n) == Str(DecimalDigits(n))

\* The values a for...of loop visits; a string yields its characters, and
\* any other non-array value is not iterable (TypeError)
Iterable(x) == x.t \in {"arr", "str"}
Items(x) ==
  IF x.t = "arr" THEN x.v
  ELSE [i \in 1..Len(x.v) |-> Str(<<x.v[i]>>)]

(***************************************************************************)
(* Results of code that may throw                                          *)
(***************************************************************************)
Ok(x) == [thrown |-> FALSE, val |-> x]
Throw(e) == [thrown |-> TRUE, err |-> e]

\* new Error(msg) / an SDK error carrying an HTTP status
Error(msg) == Obj([message |-> Str(msg)])
ApiError(st, msg) == Obj([status |-> Num(st), message |-> Str(msg)])

sNotIterable ==
  <<"n", "o", "t", " ", "i", "t", "e", "r", "a", "b", "l", "e">>
sInvalidTime ==
  <<"I", "n", "v", "a", "l", "i", "d", " ", "t", "i", "m", "e">>
sModuleAddressUndefined ==
  <<"M", "O", "D", "U", "L", "E", "_", "A", "D", "D", "R", "E", "S", "S",
    " ", "i", "s", " ", "n", "o", "t", " ", "d", "e", "f", "i", "n", "e",
    "d">>

(***************************************************************************)
(* getJournalEntries.ts: Value Unwrapper and Tree Node Decoder             *)
(***************************************************************************)
\* The default ceiling of the recursion depth
DefaultMaxDepth == 20

extractMessageFromEntry(entry) ==
  IF StrEq(Get(entry, "__variant__"), sLeaf)
     /\ Truthy(Get(Get(entry, "value"), "message"))
  THEN Get(Get(entry, "value"), "message")
  ELSE Null

\* The leaf loop: every entry with a truthy key and a truthy value, in order
LeafEntries(items) ==
  LET keep == SelectSeq(items, LAMBDA e :
                Truthy(Get(e, "key")) /\ Truthy(Get(e, "value")))
  IN [i \in 1..Len(keep) |->
        [key |-> CoerceKey(Get(keep[i], "key")),
         value |-> Get(keep[i], "value")]]

\* if (depth > maxDepth || !node || typeof node !== "object") return []
DepthGuard(node, depth, maxDepth) ==
  depth > maxDepth \/ ~Truthy(node) \/ ~TypeofObject(node)

\* a loop that puts each child's entries in front of the earlier ones
Collect_reversed(rs) ==
  IF \E i \in 1..Len(rs) : rs[i].thrown
  THEN rs[CHOOSE i \in 1..Len(rs) :
            rs[i].thrown /\ \A j \in 1..(i - 1) : ~rs[j].thrown]
  ELSE LET Cat[i \in 0..Len(rs)] ==
             IF i = 0 THEN <<>> ELSE rs[i].val \o Cat[i - 1]
       IN Ok(Cat[Len(rs)])

\* The outcome of a loop over child decodes: the first exception in child
\* order, else the results appended in child order
Collect(rs) ==
  IF \E i \in 1..Len(rs) : rs[i].thrown
  THEN rs[CHOOSE i \in 1..Len(rs) :
            rs[i].thrown /\ \A j \in 1..(i - 1) : ~rs[j].thrown]
  ELSE LET Cat[i \in 0..Len(rs)] ==
             IF i = 0 THEN <<>> ELSE Cat[i - 1] \o rs[i].val
       IN Ok(Cat[Len(rs)])

RECURSIVE extractEntriesFromNode(_, _, _)
\* The internal-node loop decodes every truthy child value at depth + 1
extractEntriesFromNode(node, depth, maxDepth) ==
  LET ents == Get(Get(node, "children"), "entries")
  IN CASE DepthGuard(node, depth, maxDepth) -> Ok(<<>>)
       [] ~DepthGuard(node, depth, maxDepth) /\ ~Truthy(ents) -> Ok(<<>>)
       [] ~DepthGuard(node, depth, maxDepth) /\ Truthy(ents)
          /\ ~Iterable(ents) -> Throw(Error(sNotIterable))
       [] ~DepthGuard(node, depth, maxDepth) /\ Truthy(ents)
          /\ Iterable(ents) /\ Get(node, "is_leaf") = Bool(TRUE) ->
            Ok(LeafEntries(Items(ents)))
       [] OTHER ->
            Collect([i \in 1..Len(Items(ents)) |->
              IF Truthy(Get(Items(ents)[i], "value"))
              THEN extractEntriesFromNode(Get(Items(ents)[i], "value"),
                                          depth + 1, maxDepth)
              ELSE Ok(<<>>)])

(***************************************************************************)
(* getDiaryObjectAddressFromGraphQL.ts: the diary's unwrapper, decoder and *)
(* Map Shape Normalizer                                                    *)
(***************************************************************************)
\* an unwrapper that reads the message field without testing the shape
diary_extractMessageFromEntry_unguarded(entry) ==
  IF IsString(entry) THEN entry ELSE Get(entry, "message")

diary_extractMessageFromEntry(entry) ==
  IF IsString(entry) THEN entry
  ELSE IF entry.t \in {"obj", "arr"}
  THEN IF StrEq(Get(entry, "__variant__"), sMessageOnly)
          /\ HasProp(entry, "message")
       THEN Get(entry, "message")
       ELSE IF HasProp(entry, "MessageOnly")
               /\ Get(entry, "MessageOnly").t \in {"obj", "arr"}
               /\ HasProp(Get(entry, "MessageOnly"), "message")
            THEN Get(Get(entry, "MessageOnly"), "message")
            ELSE IF HasProp(entry, "message")
                 THEN Get(entry, "message")
                 ELSE Null
  ELSE Null

\* let actualValue = entry.value; peel one Leaf wrapper when it has a value
PeelLeaf(value) ==
  IF Truthy(value) /\ TypeofObject(value)
     /\ StrEq(Get(value, "__variant__"), sLeaf)
     /\ Truthy(Get(value, "value"))
  THEN Get(value, "value")
  ELSE value

diary_LeafEntries(items) ==
  LET keep == SelectSeq(items, LAMBDA e :
                Truthy(e) /\ TypeofObject(e)
                /\ HasProp(e, "key") /\ HasProp(e, "value"))
  IN [i \in 1..Len(keep) |->
        [key |-> CoerceKey(Get(keep[i], "key")),
         value |-> PeelLeaf(Get(keep[i], "value"))]]

\* The entries appended in child order
Concat(rs) ==
  IF Len(rs) = 0 THEN <<>>
  ELSE LET Cat[i \in 0..Len(rs)] ==
             IF i = 0 THEN <<>> ELSE Cat[i - 1] \o rs[i]
       IN Cat[Len(rs)]

RECURSIVE diary_extractEntriesFromNode(_)
\* No depth parameter: the recursion ends where the payload ends
diary_extractEntriesFromNode(node) ==
  LET children == Get(node, "children")
      ents == Get(children, "entries")
  IN CASE ~Truthy(node) \/ ~TypeofObject(node) -> <<>>
       [] Truthy(node) /\ TypeofObject(node)
          /\ Get(node, "is_leaf") = Bool(TRUE) /\ Truthy(children) ->
            IF Truthy(ents) /\ IsArray(ents)
            THEN diary_LeafEntries(ents.v)
            ELSE <<>>
       [] Truthy(node) /\ TypeofObject(node)
          /\ ~(Get(node, "is_leaf") = Bool(TRUE) /\ Truthy(children))
          /\ Truthy(children) /\ Truthy(ents) /\ IsArray(ents) ->
            Concat([i \in 1..Len(ents.v) |->
              IF Truthy(ents.v[i]) /\ TypeofObject(ents.v[i])
                 /\ HasProp(ents.v[i], "value")
              THEN diary_extractEntriesFromNode(Get(ents.v[i], "value"))
              ELSE <<>>])
       [] OTHER -> <<>>

\* The flat encoding: [key, value] pairs or {key, value} objects
FlatItems(items) ==
  LET IsPair(x) == IsArray(x) /\ Len(x.v) >= 2
      IsKV(x) == x.t \in {"obj", "arr"}
                 /\ HasProp(x, "key") /\ HasProp(x, "value")
      keep == SelectSeq(items, LAMBDA x : IsPair(x) \/ IsKV(x))
  IN [i \in 1..Len(keep) |->
        IF IsPair(keep[i])
        THEN [key |-> CoerceKey(keep[i].v[1]), value |-> keep[i].v[2]]
        ELSE [key |-> CoerceKey(Get(keep[i], "key")),
              value |-> Get(keep[i], "value")]]

parseBigOrderedMap(mapData) ==
  IF ~Truthy(mapData) \/ ~TypeofObject(mapData) THEN <<>>
  ELSE IF StrEq(Get(mapData, "__variant__"), sBPlusTreeMap)
          /\ Truthy(Get(mapData, "root"))
       THEN diary_extractEntriesFromNode(Get(mapData, "root"))
       ELSE IF Truthy(Get(mapData, "root"))
            THEN diary_extractEntriesFromNode(Get(mapData, "root"))
            ELSE IF IsArray(mapData) THEN FlatItems(mapData.v)
                 ELSE <<>>

(***************************************************************************)
(* Dates: new Date(unixSeconds * 1000) read in local time and as ISO text  *)
(***************************************************************************)
SecondsPerDay == 86400

\* The civil date of a day number (days since 1970-01-01), proleptic
\* Gregorian calendar, as Date computes getFullYear / getMonth / getDate
CivilFromDays(days) ==
  LET z == days + 719468
      era == z \div 146097
      doe == z - era * 146097
      yoe == (doe - doe \div 1460 + doe \div 36524 - doe \div 146096) \div 365
      doy == doe - (365 * yoe + yoe \div 4 - yoe \div 100)
      mp == (5 * doy + 2) \div 153
      d == doy - (153 * mp + 2) \div 5 + 1
      m == IF mp < 10 THEN mp + 3 ELSE mp - 9
      y == yoe + era * 400 + (IF m <= 2 THEN 1 ELSE 0)
  IN [year |-> y, month |-> m, day |-> d]

\* String(n).padStart(2, "0")
PadStart2(n) ==
  IF Len(DecimalDigits(n)) < 2 THEN <<"0">> \o DecimalDigits(n)
  ELSE DecimalDigits(n)

\* unixSecondsToYYYYMMDD; tz is the local zone's offset from UTC in seconds.
\* An invalid Date has NaN fields, and parseInt("NaNNaNNaN") is NaN.
unixSecondsToYYYYMMDD(key, tz) ==
  IF key.t # "num" THEN parseInt(sNaN \o sNaN \o sNaN)
  ELSE LET c == CivilFromDays((key.v + tz) \div SecondsPerDay)
       IN parseInt(DecimalDigits(c.year) \o PadStart2(c.month)
                   \o PadStart2(c.day))

\* new Date(key * 1000).toISOString(): the fields of the UTC date-time text;
\* RangeError for an invalid date
toISOString(key) ==
  IF key.t # "num" THEN Throw(Error(sInvalidTime))
  ELSE LET c == CivilFromDays(key.v \div SecondsPerDay)
           r == key.v % SecondsPerDay
       IN Ok([year |-> c.year, month |-> c.month, day |-> c.day,
              hour |-> r \div 3600, minute |-> (r % 3600) \div 60,
              second |-> r % 60])

(***************************************************************************)
(* Array.prototype.sort with the comparator (a, b) => b.k - a.k            *)
(***************************************************************************)
\* b - a on numbers; NaN when an operand is NaN, and sort reads NaN as +0
CompareDesc(a, b) ==
  IF a.t = "num" /\ b.t = "num" THEN b.v - a.v ELSE 0

\* insert index x behind every index whose key does not sort after its key
RECURSIVE InsertDesc(_, _, _)
InsertDesc(sorted, x, keys) ==
  IF sorted = <<>> THEN <<x>>
  ELSE IF CompareDesc(keys[Head(sorted)], keys[x]) > 0
       THEN <<x>> \o sorted
       ELSE <<Head(sorted)>> \o InsertDesc(Tail(sorted), x, keys)

\* The stable descending order of the positions 1..n of keys
RECURSIVE StableOrderDesc(_, _)
StableOrderDesc(keys, n) ==
  IF n = 0 THEN <<>>
  ELSE InsertDesc(StableOrderDesc(keys, n - 1), n, keys)

\* The comparator is a consistent comparison function unless a NaN key
\* compares equal to two keys that differ from each other
ConsistentComparator(keys) ==
  ~ /\ \E i \in 1..Len(keys) : keys[i].t # "num"
    /\ \E i, j \in 1..Len(keys) :
         /\ keys[i].t = "num" /\ keys[j].t = "num"
         /\ keys[i].v # keys[j].v

\* The orders sort can leave behind: the stable descending order for a
\* consistent comparator; otherwise the order is implementation-defined
SortOrders(keys) ==
  IF ConsistentComparator(keys)
  THEN {StableOrderDesc(keys, Len(keys))}
  ELSE {[i \in 1..Len(keys) |-> p[i]] : p \in Permutations(1..Len(keys))}

Reorder(list, order) == [i \in 1..Len(list) |-> list[order[i]]]

(***************************************************************************)
(* Entry assembly: unwrap each decoded pair, drop the unreadable ones      *)
(***************************************************************************)
\* getJournalEntries.ts: for (const {key, value} of parsedEntries) ...
journalAssemble(parsedEntries) ==
  LET keep == SelectSeq(parsedEntries, LAMBDA e :
                extractMessageFromEntry(e.value) # Null)
  IN [i \in 1..Len(keep) |->
        [unixTimestamp |-> keep[i].key,
         content |-> extractMessageFromEntry(keep[i].value)]]

\* getDiaryEntries: the same loop, with the date and ISO conversions
diaryAssemble(parsedEntries, tz) ==
  LET keep == SelectSeq(parsedEntries, LAMBDA e :
                diary_extractMessageFromEntry(e.value) # Null)
  IN IF \E i \in 1..Len(keep) : toISOString(keep[i].key).thrown
     THEN Throw(Error(sInvalidTime))
     ELSE Ok([i \in 1..Len(keep) |->
               [date |-> unixSecondsToYYYYMMDD(keep[i].key, tz),
                content |-> diary_extractMessageFromEntry(keep[i].value),
                timestamp |-> toISOString(keep[i].key).val]])

\* journalEntries.sort((a, b) => b.unixTimestamp - a.unixTimestamp)
journalSortOutcomes(list) ==
  {Reorder(list, o) :
     o \in SortOrders([i \in 1..Len(list) |-> list[i].unixTimestamp])}

\* diaryEntries.sort((a, b) => b.date - a.date)
diarySortOutcomes(list) ==
  {Reorder(list, o) :
     o \in SortOrders([i \in 1..Len(list) |-> list[i].date])}

(***************************************************************************)
(* Address Resolver                                                        *)
(***************************************************************************)
sGraphql == <<"g", "r", "a", "p", "h", "q", "l">>
sNotFoundSource == <<"n", "o", "t", "_", "f", "o", "u", "n", "d">>
sZeroX == <<"0", "x">>

\* String(x); an array is the comma-joined text of its elements, null and
\* undefined elements giving the empty text
RECURSIVE ToStringJS(_)
RECURSIVE JoinJS(_, _)
JoinJS(a, i) ==
  IF i > Len(a) THEN <<>>
  ELSE (IF i > 1 THEN <<",">> ELSE <<>>)
       \o (IF IsNullish(a[i]) THEN <<>> ELSE ToStringJS(a[i]))
       \o JoinJS(a, i + 1)

ToStringJS(x) ==
  CASE x.t = "str" -> x.v
    [] x.t = "num" ->
         IF x.v < 0 THEN <<"-">> \o DecimalDigits(-x.v)
         ELSE DecimalDigits(x.v)
    [] x.t = "nan" -> sNaN
    [] x.t = "null" -> <<"n", "u", "l", "l">>
    [] x.t = "bool" ->
         IF x.v THEN <<"t", "r", "u", "e">> ELSE <<"f", "a", "l", "s", "e">>
    [] x.t = "undef" -> <<"u", "n", "d", "e", "f", "i", "n", "e", "d">>
    [] x.t = "arr" -> JoinJS(x.v, 1)
    [] OTHER -> <<"[", "o", "b", "j", "e", "c", "t", " ", "O", "b", "j",
                  "e", "c", "t", "]">>

\* s.startsWith(prefix)
StartsWith(s, prefix) ==
  Len(s) >= Len(prefix) /\ SubSeq(s, 1, Len(prefix)) = prefix

\* The helper of the resolvers that normalize the indexed address field
extractAddressString(value) ==
  IF IsString(value) THEN value
  ELSE IF Truthy(Get(value, "vec")) /\ IsArray(Get(value, "vec"))
          /\ Len(Get(value, "vec").v) > 0
       THEN Str(ToStringJS(Get(value, "vec").v[1]))
       ELSE Null

\* The helper of the string-returning resolver: after the vec cases it
\* searches the properties for a "0x" string.  Property order is not part of
\* the value model, so the search is exact for values in which at most one
\* property (or array element) yields an address.
RECURSIVE legacy_extractAddressString(_)
legacy_extractAddressString(value) ==
  IF IsString(value) THEN value
  ELSE IF value.t \notin {"obj", "arr"} THEN Null
  ELSE LET vecValue == Get(value, "vec")
           hits == {h \in {IF IsString(value.v[k])
                           THEN IF StartsWith(value.v[k].v, sZeroX)
                                THEN value.v[k] ELSE Null
                           ELSE IF TypeofObject(value.v[k])
                                THEN legacy_extractAddressString(value.v[k])
                                ELSE Null : k \in DOMAIN value.v} :
                      Truthy(h)}
       IN IF HasProp(value, "vec") /\ IsArray(vecValue)
             /\ Len(vecValue.v) > 0
          THEN Str(ToStringJS(vecValue.v[1]))
          ELSE IF HasProp(value, "vec") /\ IsString(vecValue)
          THEN vecValue
          ELSE IF HasProp(value, "vec") /\ vecValue.t \in {"obj", "arr"}
          THEN legacy_extractAddressString(vecValue)
          ELSE IF hits # {} THEN CHOOSE h \in hits : TRUE
          ELSE Null

\* The table and column the query of each application reads
TableField(im) ==
  IF im = "journal" THEN "user_to_journal_object" ELSE "user_to_diary_object"
AddressField(im) ==
  IF im = "journal" THEN "user_journal_object_address"
  ELSE "user_diary_object_address"

AddressFound(a) == Obj([address |-> a, source |-> Str(sGraphql)])
AddressNotFound == Obj([address |-> Null, source |-> Str(sNotFoundSource)])

\* data?.table?.[0]
FirstRow(d, im) ==
  LET rows == Get(d, TableField(im))
  IN IF IsArray(rows) /\ Len(rows.v) > 0 THEN rows.v[1] ELSE Undef

\* getJournalEntries.ts:148 - the resolver that returns the field as it is
plain_resolve(d, im) ==
  LET field == Get(FirstRow(d, im), AddressField(im))
  IN IF Truthy(field) THEN AddressFound(field) ELSE AddressNotFound

\* a normalizing resolver without the `if (address)` test
normalizing_resolve_unchecked(d, im) ==
  LET field == Get(FirstRow(d, im), AddressField(im))
  IN IF Truthy(field) THEN AddressFound(extractAddressString(field))
     ELSE AddressNotFound

\* getDiaryObjectAddressFromGraphQL.ts:44 and the journal's twin - the
\* resolver that normalizes the field
normalizing_resolve(d, im) ==
  LET field == Get(FirstRow(d, im), AddressField(im))
  IN IF Truthy(field) /\ Truthy(extractAddressString(field))
     THEN AddressFound(extractAddressString(field))
     ELSE AddressNotFound

\* the string-returning resolver that getDiaryEntries was written against:
\* a null first row makes the property read throw, which the catch turns
\* into null
legacy_resolve(d, im) ==
  LET rows == Get(d, TableField(im))
  IN IF IsArray(rows) /\ Len(rows.v) > 0
     THEN IF IsNullish(rows.v[1]) THEN Null
          ELSE IF Truthy(Get(rows.v[1], AddressField(im)))
               THEN legacy_extractAddressString(
                      Get(rows.v[1], AddressField(im)))
               ELSE Null
     ELSE Null

\* How the resolver's promise settles when executeQuery returns d: every
\* read of the try block is guarded, so it returns
ResolveReturned(rs, d, im) ==
  CASE rs = "plain" -> Ok(plain_resolve(d, im))
    [] rs = "normalizing" -> Ok(normalizing_resolve(d, im))
    [] OTHER -> Ok(legacy_resolve(d, im))

\* a catch block that lets the error of the query through
ResolveThrown_rethrowing(rs, error) == Throw(error)

\* How the resolver's promise settles when executeQuery throws: the catch
\* block returns the absent result
ResolveThrown(rs, error) ==
  IF rs = "legacy" THEN Ok(Null) ELSE Ok(AddressNotFound)

(***************************************************************************)
(* Payload builders: the ledger's JSON encoding of the Move structures     *)
(***************************************************************************)
sHi == <<"h", "i">>
sHello == <<"h", "e", "l", "l", "o">>
sBar == <<"b", "a", "r">>
sAbc == <<"a", "b", "c">>
s0xABC == <<"0", "x", "A", "B", "C">>
sOther == <<"O", "t", "h", "e", "r">>

\* JournalEntry::MessageOnly { message } and its Leaf slot in the tree
MessageOnly(msg) ==
  Obj([__variant__ |-> Str(sMessageOnly), message |-> Str(msg)])
LeafValue(msg) ==
  Obj([__variant__ |-> Str(sLeaf), value |-> MessageOnly(msg)])
Entry(k, val) == Obj([key |-> k, value |-> val])
Node(isLeaf, ents) ==
  Obj([is_leaf |-> Bool(isLeaf), children |-> Obj([entries |-> ents])])
LeafNode(ents) == Node(TRUE, Arr(ents))
InternalNode(ents) == Node(FALSE, Arr(ents))
BPlusTreeMap(root) ==
  Obj([__variant__ |-> Str(sBPlusTreeMap), root |-> root])
Resource(map) == Obj([daily_entries |-> map])

\* A set of {timestamp, message} pairs as the ledger stores it in a map
\* small enough for one node: a single-leaf root, keys ascending, u64 keys
\* as decimal strings, each message in its Leaf wrapper
EncodeLeafRoot(pairs) ==
  Resource(BPlusTreeMap(LeafNode(
    [i \in 1..Len(pairs) |->
       Entry(U64ToString(pairs[i].timestamp),
             LeafValue(pairs[i].message))])))

\* The same pairs in the flat encoding: a sequence whose elements are
\* [key, value] arrays (odd positions) and {key, value} objects (even ones)
EncodeFlat(pairs) ==
  Resource(Arr(
    [i \in 1..Len(pairs) |->
       IF i % 2 = 1
       THEN Arr(<<U64ToString(pairs[i].timestamp),
                  MessageOnly(pairs[i].message)>>)
       ELSE Entry(U64ToString(pairs[i].timestamp),
                  MessageOnly(pairs[i].message))]))

(***************************************************************************)
(* Bounds and input sets                                                   *)
(***************************************************************************)
\* The most entries of an encoded map, and the deepest chain of nodes
MaxEntries == 3
MaxChain == 22

Timestamps == {0, 100, 200, 90000}
Messages == {<<>>, sHi}
TimeZones == {-18000, 0, 32400}

RECURSIVE Ascending(_)
\* the elements of a finite set of integers in ascending order
Ascending(S) ==
  IF S = {} THEN <<>>
  ELSE LET m == CHOOSE x \in S : \A y \in S : x <= y
       IN <<m>> \o Ascending(S \ {m})

\* Every set of at most MaxEntries pairs with distinct timestamps, in the
\* key order of the map
PairSeqs ==
  UNION {{[i \in 1..Cardinality(S) |->
             [timestamp |-> Ascending(S)[i], message |-> m[Ascending(S)[i]]]] :
            m \in [S -> Messages]} :
         S \in {T \in SUBSET Timestamps : Cardinality(T) <= MaxEntries}}

\* Key orders of an untrusted payload: the injective sequences of at least
\* two keys
OrderKeys == {100, 200, 300}
KeyOrders ==
  UNION {{q \in [1..n -> OrderKeys] : \A i, j \in 1..n : q[i] = q[j] => i = j} :
         n \in 2..MaxEntries}

LeafOfKeys(q) ==
  LeafNode([i \in 1..Len(q) |-> Entry(U64ToString(q[i]), LeafValue(sHi))])
\* a two-level tree: every key in a leaf child of its own
TreeOfKeys(q) ==
  InternalNode([i \in 1..Len(q) |->
     Entry(U64ToString(q[i]), LeafOfKeys(<<q[i]>>))])

\* the internal node at depth d of a chain: one leaf whose only entry has
\* that leaf's depth as its key, and then the rest of the chain, if any
ChainNode(d, rest) ==
  InternalNode(
    <<Entry(U64ToString(d + 1), LeafOfKeys(<<d + 1>>))>>
    \o (IF rest = Null THEN <<>> ELSE <<Entry(U64ToString(d + 2), rest)>>))

RECURSIVE ChainUp(_, _)
\* the chain whose part below depth d is `rest`, built from the bottom up
ChainUp(d, rest) ==
  IF d = 0 \/ rest.t # "obj" THEN rest
  ELSE ChainUp(d - 1, ChainNode(d - 1, rest))

\* n nested internal nodes, each wrapping one leaf entry
Chain(n) == ChainUp(n - 1, ChainNode(n - 1, Null))
ChainDepths == {1, 2, DefaultMaxDepth, DefaultMaxDepth + 1, MaxChain}

GoodLeaf == LeafOfKeys(<<100>>)

\* Roots in which a node or entry matches no known encoding while a sibling
\* is well formed: that sibling holds the one entry (100, "hi")
MalformedBesideGood ==
  { InternalNode(<<Entry(Str(<<"1">>), GoodLeaf),
                   Entry(Str(<<"2">>), Node(TRUE, Num(5)))>>),
    InternalNode(<<Entry(Str(<<"1">>), GoodLeaf),
                   Entry(Str(<<"2">>), Node(TRUE, Str(sAbc)))>>),
    InternalNode(<<Entry(Str(<<"1">>), GoodLeaf), Null,
                   Entry(Str(<<"2">>), Null),
                   Entry(Str(<<"3">>), Num(7)),
                   Entry(Str(<<"4">>), Str(sAbc))>>),
    LeafNode(<<Null, Num(7), Entry(Str(<<"1", "0", "0">>), LeafValue(sHi)),
               Obj([key |-> Str(<<"5">>)])>>) }

\* Roots that match no known encoding as a whole
MalformedAlone ==
  { Node(TRUE, Num(5)),
    Node(TRUE, Obj(<<>>)),
    Node(TRUE, Str(sAbc)),
    Node(FALSE, Num(5)),
    Node(FALSE, Bool(TRUE)),
    Obj([is_leaf |-> Bool(TRUE)]),
    Obj([is_leaf |-> Bool(TRUE), children |-> Null]) }

MalformedRoots == MalformedBesideGood \cup MalformedAlone

\* Entries whose key or value is not in the well-formed encoding
OddEntryRoots ==
  { LeafNode(<<Entry(Str(sAbc), LeafValue(sHi)),
               Entry(Str(<<"1", "0", "0">>), LeafValue(sHi))>>),
    LeafNode(<<Entry(Str(sAbc), LeafValue(sHi)),
               Entry(Str(<<"1", "0", "0">>), LeafValue(sHi)),
               Entry(Str(<<"2", "0", "0">>), LeafValue(sHi))>>),
    LeafNode(<<Entry(Num(100), LeafValue(sHi)),
               Entry(Num(0), LeafValue(sHi))>>),
    LeafNode(<<Entry(Str(<<"1", "0", "0">>), Obj([foo |-> Str(sBar)])),
               Entry(Str(<<"2", "0", "0">>), LeafValue(sHi))>>),
    LeafNode(<<Entry(Str(<<"1", "0", "0">>), MessageOnly(sHi)),
               Entry(Str(<<"2", "0", "0">>), Str(sHi))>>),
    LeafNode(<<Entry(Str(<<"1", "0", "0">>),
                     Obj([__variant__ |-> Str(sLeaf),
                          value |-> Obj([message |-> Num(5)])]))>>),
    LeafNode(<<Entry(Str(<<"1", "7", "0", "0", "0", "0", "0", "0", "0",
                           "0">>), LeafValue(sHello))>>),
    LeafNode(<<Entry(Str(<<"1", "0", "0">>),
                     Obj([__variant__ |-> Str(sOther), message |-> Str(sHi)])),
               Entry(Str(<<"2", "0", "0">>), LeafValue(sHi))>>),
    LeafNode(<<Entry(Str(<<"1", "0", "0">>),
                     Obj([__variant__ |-> Str(sOther)])),
               Entry(Str(<<"2", "0", "0">>), LeafValue(sHi))>>),
    LeafNode(<<Entry(Str(<<"1", "0", "0">>), Num(7)),
               Entry(Str(<<"2", "0", "0">>), Null),
               Entry(Str(<<"3", "0", "0">>), LeafValue(sHi))>>),
    LeafNode(<<Entry(Num(-5), LeafValue(sHi)),
               Entry(Str(<<"-", "5">>), LeafValue(sHello))>>),
    LeafNode(<<Entry(Str(<<"1", "0", "0">>), Str(<<>>)),
               Entry(Str(<<"2", "0", "0">>), Num(0)),
               Entry(Str(<<"3", "0", "0">>), Bool(FALSE)),
               Entry(Str(<<"4", "0", "0">>), LeafValue(sHi))>>) }

\* What getAccountResource can resolve to
ResourceInputs ==
  {EncodeLeafRoot(ps) : ps \in PairSeqs}
  \cup {Resource(BPlusTreeMap(LeafOfKeys(q))) : q \in KeyOrders}
  \cup {Resource(BPlusTreeMap(TreeOfKeys(q))) : q \in KeyOrders}
  \cup {Resource(BPlusTreeMap(Chain(n))) : n \in ChainDepths}
  \cup {Resource(BPlusTreeMap(r)) : r \in MalformedRoots \cup OddEntryRoots}
  \cup {EncodeFlat(ps) : ps \in PairSeqs}
  \cup { Resource(Obj([foo |-> Str(sBar)])), Resource(Str(sAbc)) }
  \cup { Undef, Obj(<<>>), Resource(Null),
         Resource(Obj([root |-> GoodLeaf])),
         Resource(Obj([handle |-> Str(s0xABC)])),
         Resource(Arr(<<Arr(<<Str(<<"1", "0", "0">>), MessageOnly(sHi)>>),
                        Entry(Str(<<"2", "0", "0">>), MessageOnly(sHi))>>)) }

sNetworkError ==
  <<"N", "e", "t", "w", "o", "r", "k", " ", "E", "r", "r", "o", "r">>
sResourceNotFound ==
  <<"R", "e", "s", "o", "u", "r", "c", "e", " ", "n", "o", "t", " ", "f",
    "o", "u", "n", "d">>
sServerError ==
  <<"I", "n", "t", "e", "r", "n", "a", "l", " ", "e", "r", "r", "o", "r">>
sStatus404 == <<"s", "t", "a", "t", "u", "s", " ", "4", "0", "4">>

\* What an external call can throw
ErrorInputs ==
  { Error(sNetworkError), ApiError(500, sServerError),
    ApiError(404, sServerError), Error(sResourceNotFound),
    Error(sStatus404), Obj(<<>>) }

\* The address column of an indexed row
AddressFieldInputs ==
  { Str(s0xABC), Str(<<>>), Null, Num(5),
    Obj([vec |-> Arr(<<Str(s0xABC)>>)]),
    Obj([vec |-> Arr(<<>>)]),
    Obj([vec |-> Arr(<<Num(7)>>)]),
    Obj([foo |-> Str(sBar)]),
    Obj([inner |-> Str(s0xABC)]) }

\* What executeQuery can resolve to for application im
DataInputs(im) ==
  {Obj((TableField(im) :> Arr(<<Obj((AddressField(im) :> a))>>))) :
     a \in AddressFieldInputs}
  \cup { Obj((TableField(im) :> Arr(<<>>))),
         Obj((TableField(im) :> Arr(<<Null>>))),
         Obj((TableField(im) :> Null)),
         Obj(<<>>), Undef, Null }

\* What the get_diary_object_address view call can resolve to
ViewInputs ==
  { Arr(<<Str(s0xABC)>>), Arr(<<Null>>), Arr(<<>>), Undef,
    Arr(<<Obj([vec |-> Arr(<<Str(s0xABC)>>)])>>),
    Arr(<<Obj([vec |-> Arr(<<>>)])>>) }

(***************************************************************************)
(* Entry Assembly Pipeline: getJournalEntries / getDiaryEntries            *)
(***************************************************************************)
VARIABLES
  impl,            \* which application runs: "journal" or "diary"
  resolver,        \* which resolver module it imports
  moduleAddress,   \* TRUE when MODULE_ADDRESS is set
  tz,              \* the local time zone, seconds east of UTC
  pc,              \* "start", the call being awaited, or "done"
  data,            \* how the executeQuery promise settled
  resolved,        \* how the resolver's promise settled
  addressResult,   \* the address variable of getEntries
  resource,        \* how the getAccountResource promise settled
  outcome,         \* what the caller of getEntries receives
  calls            \* the external calls issued so far, in order

\* The ledger the contract runs on
VARIABLES
  contract,        \* which contract is published: "journal" or "diary"
  now,             \* timestamp::now_seconds()
  registry,        \* all_journals / all_diaries: user address -> object address
  journals,        \* object address -> daily_entries of the resource there
  lastCall         \* the last transaction: its arguments, result and event

\* getDiaryEntries.ts: the entries read from events, else date by date
VARIABLES
  scanPc,          \* the call getDiaryEntries awaits: "address", "events",
                   \* "batch", "delay", or "done"
  today,           \* new Date(), as a day number
  batchStart,      \* the loop variable of the date-by-date fallback
  entriesFound,    \* the entries the fallback has collected
  viewCalls,       \* the get_diary_content_by_date calls issued, by day offset
  rateLimited,     \* the batchStart values of the batches in which a view
                   \* call failed with status 429
  scanResult       \* what getDiaryEntries returns

\* view/page.tsx: the delete buttons of the journal page
VARIABLES
  account,             \* TRUE when a wallet account is connected
  listed,              \* the timestamps of the entries the page lists
  chain,               \* the timestamps of the entries the journal holds
  deletingTimestamps,  \* the state of the same name
  attempt,             \* per timestamp: the call its handleDelete awaits
  ended                \* the handleDelete that returned last, and how

ledgerVars == <<contract, now, registry, journals, lastCall>>

scanVars == <<scanPc, today, batchStart, entriesFound, viewCalls,
              rateLimited, scanResult>>

pageVars == <<account, listed, chain, deletingTimestamps, attempt, ended>>

viewVars == <<impl, resolver, moduleAddress, tz, pc, data, resolved,
              addressResult, resource, outcome, calls>>

vars == <<impl, resolver, moduleAddress, tz, pc, data, resolved,
          addressResult, resource, outcome, calls, ledgerVars,
          scanVars, pageVars>>

\* A promise that has not settled; Ok(x) and Throw(e) are the settled ones
NotSettled == [thrown |-> FALSE, settled |-> FALSE]
Fulfilled(p) == ~p.thrown /\ "val" \in DOMAIN p

Pending == [kind |-> "pending"]
Returned(list) == [kind |-> "list", list |-> list]
Raised(error) == [kind |-> "throw", err |-> error]

\* error?.message?.includes(text)
MessageIncludes(error, text) ==
  IsString(Get(error, "message")) /\ Includes(Get(error, "message").v, text)

\* a catch block that absorbs every error
journal_catch_absorbing(error) == Returned(<<>>)

\* a catch block that passes every error on
journal_catch_rethrowing(error) == Raised(error)

\* getJournalEntries.ts:126 - the catch block
journal_catch(error) ==
  IF Get(error, "status") = Num(404) \/ MessageIncludes(error, sNotFound)
  THEN Returned(<<>>)
  ELSE Raised(error)

\* getDiaryEntries - the catch block: both paths return []
diary_catch(error) ==
  IF Get(error, "status") = Num(404) \/ MessageIncludes(error, s404)
     \/ MessageIncludes(error, sNotFound)
  THEN Returned(<<>>)
  ELSE Returned(<<>>)

Catch(im, error) ==
  IF im = "journal" THEN journal_catch(error) ELSE diary_catch(error)

Await(call) == [pc |-> call, outcome |-> Pending]
Done(o) == [pc |-> "done", outcome |-> o]

\* if (!MODULE_ADDRESS) throw ...; else the resource read is issued
AfterAddress(im, cfg) ==
  IF ~cfg THEN Done(Catch(im, Error(sModuleAddressUndefined)))
  ELSE Await("resource")

\* The code between the settling of the resolver's promise and the next
\* await; a rejection would land in the catch block of getEntries
AfterResolve(im, promise, cfg) ==
  IF promise.thrown THEN Done(Catch(im, promise.err))
  ELSE IF im = "journal"
  THEN IF ~Truthy(Get(promise.val, "address")) THEN Done(Returned(<<>>))
       ELSE AfterAddress(im, cfg)
  ELSE IF ~Truthy(promise.val) THEN Await("view")
       ELSE AfterAddress(im, cfg)

\* getDiaryObjectAddress: result[0], and null when the read throws
viewResult(result) ==
  IF IsNullish(result) THEN Null
  ELSE IF IsArray(result) /\ Len(result.v) > 0 THEN result.v[1]
  ELSE Undef

\* The code after the fallback address read
AfterView(addr, cfg) ==
  IF ~Truthy(addr) THEN Done(Returned(<<>>))
  ELSE AfterAddress("diary", cfg)

\* a reader that rejects a payload without a root
journal_afterResource_rejecting(res) ==
  LET root == Get(Get(res, "daily_entries"), "root")
      parsed == extractEntriesFromNode(root, 0, DefaultMaxDepth)
  IN IF ~Truthy(root) THEN {Raised(Error(sNotIterable))}
     ELSE IF parsed.thrown THEN {journal_catch(parsed.err)}
     ELSE {Returned(l) : l \in journalSortOutcomes(journalAssemble(parsed.val))}

\* getJournalEntries.ts:101-125 - from the resource to the returned list
journal_afterResource(res) ==
  LET root == Get(Get(res, "daily_entries"), "root")
      parsed == extractEntriesFromNode(root, 0, DefaultMaxDepth)
  IN IF ~Truthy(root) THEN {Returned(<<>>)}
     ELSE IF parsed.thrown THEN {journal_catch(parsed.err)}
     ELSE {Returned(l) : l \in journalSortOutcomes(journalAssemble(parsed.val))}

\* getDiaryEntries - from the resource to the returned list
diary_afterResource(res, zone) ==
  LET dailyEntries == Get(res, "daily_entries")
      assembled == diaryAssemble(parseBigOrderedMap(dailyEntries), zone)
  IN IF ~Truthy(res) \/ ~Truthy(dailyEntries) THEN {Returned(<<>>)}
     ELSE IF assembled.thrown THEN {diary_catch(assembled.err)}
     ELSE {Returned(l) : l \in diarySortOutcomes(assembled.val)}

AfterResource(im, res, zone) ==
  IF im = "journal" THEN journal_afterResource(res)
  ELSE diary_afterResource(res, zone)

\* A BigOrderedMap with no entry, and the ledger before any transaction
EmptyMap == [k \in {} |-> {}]
NoCall == [op |-> "none"]

\* getDiaryEntries of getDiaryEntries.ts has not been called
ScanIdle ==
  /\ scanPc = "idle"
  /\ today = 0
  /\ batchStart = 0
  /\ entriesFound = <<>>
  /\ viewCalls = <<>>
  /\ rateLimited = {}
  /\ scanResult = Pending

\* the journal page is not mounted
PageIdle ==
  /\ account = FALSE
  /\ listed = {}
  /\ chain = {}
  /\ deletingTimestamps = {}
  /\ attempt = EmptyMap
  /\ ended = [how |-> "never"]

\* The resolver modules each application can be built with
Resolvers(im) ==
  IF im = "journal" THEN {"plain", "normalizing"}
  ELSE {"normalizing", "legacy"}

Init ==
  /\ impl \in {"journal", "diary"}
  /\ resolver \in Resolvers(impl)
  /\ moduleAddress \in BOOLEAN
  /\ tz \in TimeZones
  /\ pc = "start"
  /\ data = NotSettled
  /\ resolved = NotSettled
  /\ addressResult = Undef
  /\ resource = NotSettled
  /\ outcome = Pending
  /\ calls = <<>>
  /\ contract = "journal"
  /\ now = 0
  /\ registry = EmptyMap
  /\ journals = EmptyMap
  /\ lastCall = NoCall
  /\ ScanIdle
  /\ PageIdle

\* move to the control state `step`, issuing the call it awaits
Goto(step) ==
  /\ pc' = step.pc
  /\ outcome' = step.outcome
  /\ calls' = IF step.pc = "done" THEN calls ELSE Append(calls, step.pc)

\* getEntries(userAddress) is called: the resolver issues the indexed query
Invoke ==
  /\ pc = "start"
  /\ Goto(Await("indexed"))
  /\ UNCHANGED <<ledgerVars, scanVars, pageVars>>
  /\ UNCHANGED <<impl, resolver, moduleAddress, tz, data, resolved,
                 addressResult, resource>>

\* The resolver's promise has settled as p
Resolved(p) ==
  /\ resolved' = p
  /\ addressResult' = IF p.thrown THEN addressResult ELSE p.val
  /\ Goto(AfterResolve(impl, p, moduleAddress))

\* executeQuery resolves
IndexedReturns ==
  /\ pc = "indexed"
  /\ \E d \in DataInputs(impl) :
       /\ data' = Ok(d)
       /\ Resolved(ResolveReturned(resolver, d, impl))
  /\ UNCHANGED <<ledgerVars, scanVars, pageVars>>
  /\ UNCHANGED <<impl, resolver, moduleAddress, tz, resource>>

\* executeQuery rethrows the request's error
IndexedThrows ==
  /\ pc = "indexed"
  /\ \E e \in ErrorInputs :
       /\ data' = Throw(e)
       /\ Resolved(ResolveThrown(resolver, e))
  /\ UNCHANGED <<ledgerVars, scanVars, pageVars>>
  /\ UNCHANGED <<impl, resolver, moduleAddress, tz, resource>>

\* the fallback view call resolves
ViewReturns ==
  /\ pc = "view"
  /\ \E r \in ViewInputs :
       /\ addressResult' = viewResult(r)
       /\ Goto(AfterView(viewResult(r), moduleAddress))
  /\ UNCHANGED <<ledgerVars, scanVars, pageVars>>
  /\ UNCHANGED <<impl, resolver, moduleAddress, tz, data, resolved, resource>>

\* the fallback view call throws: getDiaryObjectAddress returns null
ViewThrows ==
  /\ pc = "view"
  /\ addressResult' = Null
  /\ Goto(AfterView(Null, moduleAddress))
  /\ UNCHANGED <<ledgerVars, scanVars, pageVars>>
  /\ UNCHANGED <<impl, resolver, moduleAddress, tz, data, resolved, resource>>

\* getAccountResource resolves
ResourceReturns ==
  /\ pc = "resource"
  /\ \E res \in ResourceInputs :
       /\ resource' = Ok(res)
       /\ \E o \in AfterResource(impl, res, tz) : Goto(Done(o))
  /\ UNCHANGED <<ledgerVars, scanVars, pageVars>>
  /\ UNCHANGED <<impl, resolver, moduleAddress, tz, data, resolved,
                 addressResult>>

\* getAccountResource throws
ResourceThrows ==
  /\ pc = "resource"
  /\ \E e \in ErrorInputs :
       /\ resource' = Throw(e)
       /\ Goto(Done(Catch(impl, e)))
  /\ UNCHANGED <<ledgerVars, scanVars, pageVars>>
  /\ UNCHANGED <<impl, resolver, moduleAddress, tz, data, resolved,
                 addressResult>>

Next ==
  \/ Invoke
  \/ IndexedReturns
  \/ IndexedThrows
  \/ ViewReturns
  \/ ViewThrows
  \/ ResourceReturns
  \/ ResourceThrows

Spec == Init /\ [][Next]_vars

(***************************************************************************)
(* The Move contracts: decentralized_journal (part_014), permanent_diary    *)
(* keyed by timestamp (part_013) and permanent_diary keyed by day          *)
(* (part_012)                                                              *)
(***************************************************************************)
MAX_CONTENT_LENGTH == 10000

\* Option<T>
None == [some |-> FALSE]
Some(x) == [some |-> TRUE, value |-> x]

\* BigOrderedMap: contains, add (of a key that is not in the map), remove
Contains(m, k) == k \in DOMAIN m
MapAdd(m, k, v) == m @@ (k :> v)
MapRemove(m, k) == [x \in DOMAIN m \ {k} |-> m[x]]

\* A transaction either commits a new ledger and an event or aborts, which
\* leaves the ledger as it was
Commit(reg, js, ev) ==
  [ok |-> TRUE, registry |-> reg, journals |-> js, event |-> ev]
Abort(code) == [ok |-> FALSE, code |-> code]

NoEvent == [type |-> "none"]
AddJournalEntryEvent(obj, user, date, content) ==
  [type |-> "add", user_journal_object_address |-> obj,
   user_address |-> user, date_in_unix_seconds |-> date, content |-> content]
DeleteJournalEntryEvent(obj, user, date) ==
  [type |-> "delete", user_journal_object_address |-> obj,
   user_address |-> user, date_in_unix_seconds |-> date]

check_if_user_journal_object_exists(L, sender_address) ==
  Contains(L.registry, sender_address)

\* a creation that hands every user the same object
create_user_journal_object_shared(L, sender) ==
  [registry |-> MapAdd(L.registry, sender, 1),
   journals |-> MapAdd(L.journals, 1, EmptyMap)]

\* object::create_object gives the new object an address of its own
create_user_journal_object(L, sender) ==
  LET user_journal_object_address == Cardinality(DOMAIN L.journals) + 1
  IN [registry |-> MapAdd(L.registry, sender, user_journal_object_address),
      journals |-> MapAdd(L.journals, user_journal_object_address, EmptyMap)]

\* The ledger after the journal of sender has been created if it was missing
WithJournal(L, sender) ==
  IF check_if_user_journal_object_exists(L, sender) THEN L
  ELSE create_user_journal_object(L, sender)

\* an add that stores nothing
journal_add_forgetting(L, sender, key, content) ==
  IF content.length > MAX_CONTENT_LENGTH THEN Abort("E_CONTENT_TOO_LONG")
  ELSE LET L1 == WithJournal(L, sender)
           obj == L1.registry[sender]
       IN Commit(L1.registry, L1.journals,
                 AddJournalEntryEvent(obj, sender, key, content))

\* The body that add_journal_entry and add_journal_for_test share;
\* BigOrderedMap::add aborts when the key is already in the map
journal_add(L, sender, key, content) ==
  IF content.length > MAX_CONTENT_LENGTH THEN Abort("E_CONTENT_TOO_LONG")
  ELSE LET L1 == WithJournal(L, sender)
           obj == L1.registry[sender]
       IN IF Contains(L1.journals[obj], key)
          THEN Abort("EKEY_ALREADY_EXISTS")
          ELSE Commit(L1.registry,
                      [L1.journals EXCEPT ![obj] = MapAdd(@, key, content)],
                      AddJournalEntryEvent(obj, sender, key, content))

add_journal_entry(L, sender, content, now_seconds) ==
  journal_add(L, sender, now_seconds, content)

add_journal_for_test(L, sender, date, content) ==
  journal_add(L, sender, date, content)

\* a delete that empties the journal
delete_journal_entry_by_unixtimestamp_all(L, sender, unix_timestamp) ==
  IF ~check_if_user_journal_object_exists(L, sender)
  THEN Abort("E_USER_JOURNAL_OBJECT_DOES_NOT_EXIST")
  ELSE LET obj == L.registry[sender]
       IN IF ~Contains(L.journals[obj], unix_timestamp)
          THEN Abort("E_JOURNAL_ENTRY_NOT_FOUND")
          ELSE Commit(L.registry,
                      [L.journals EXCEPT ![obj] = EmptyMap],
                      DeleteJournalEntryEvent(obj, sender, unix_timestamp))

\* a delete that unregisters the user whose last entry it removes
delete_journal_entry_by_unixtimestamp_unregistering(L, sender, unix_timestamp) ==
  IF ~check_if_user_journal_object_exists(L, sender)
  THEN Abort("E_USER_JOURNAL_OBJECT_DOES_NOT_EXIST")
  ELSE LET obj == L.registry[sender]
       IN IF ~Contains(L.journals[obj], unix_timestamp)
          THEN Abort("E_JOURNAL_ENTRY_NOT_FOUND")
          ELSE Commit(IF DOMAIN L.journals[obj] = {unix_timestamp}
                      THEN MapRemove(L.registry, sender) ELSE L.registry,
                      [L.journals EXCEPT
                         ![obj] = MapRemove(@, unix_timestamp)],
                      DeleteJournalEntryEvent(obj, sender, unix_timestamp))

\* a delete that takes a missing entry for a deleted one
delete_journal_entry_by_unixtimestamp_lenient(L, sender, unix_timestamp) ==
  IF ~check_if_user_journal_object_exists(L, sender)
  THEN Abort("E_USER_JOURNAL_OBJECT_DOES_NOT_EXIST")
  ELSE LET obj == L.registry[sender]
       IN Commit(L.registry,
                 [L.journals EXCEPT ![obj] = MapRemove(@, unix_timestamp)],
                 DeleteJournalEntryEvent(obj, sender, unix_timestamp))

delete_journal_entry_by_unixtimestamp(L, sender, unix_timestamp) ==
  IF ~check_if_user_journal_object_exists(L, sender)
  THEN Abort("E_USER_JOURNAL_OBJECT_DOES_NOT_EXIST")
  ELSE LET obj == L.registry[sender]
       IN IF ~Contains(L.journals[obj], unix_timestamp)
          THEN Abort("E_JOURNAL_ENTRY_NOT_FOUND")
          ELSE Commit(L.registry,
                      [L.journals EXCEPT
                         ![obj] = MapRemove(@, unix_timestamp)],
                      DeleteJournalEntryEvent(obj, sender, unix_timestamp))

get_user_journal_object_address(L, user_address) ==
  IF ~Contains(L.registry, user_address) THEN None
  ELSE Some(L.registry[user_address])

\* the message of the MessageOnly entry stored under date, if any
get_journal_entry_by_date(L, user_address, date) ==
  IF ~Contains(L.registry, user_address) THEN None
  ELSE LET entries == L.journals[L.registry[user_address]]
       IN IF Contains(entries, date) THEN Some(entries[date]) ELSE None

\* permanent_diary: the body that the day-keyed add_daily_entry (part_012)
\* and add_daily_entry_for_test share - the entry of the date is removed first
diary_add(L, sender, date, content) ==
  LET L1 == WithJournal(L, sender)
      obj == L1.registry[sender]
      entries == L1.journals[obj]
      removed == IF Contains(entries, date) THEN MapRemove(entries, date)
                 ELSE entries
  IN Commit(L1.registry,
            [L1.journals EXCEPT ![obj] = MapAdd(removed, date, content)],
            AddJournalEntryEvent(obj, sender, date, content))

\* the key is the timestamp normalized to the start of its day
add_daily_entry(L, sender, content, now_seconds) ==
  diary_add(L, sender, (now_seconds \div SecondsPerDay) * SecondsPerDay,
            content)

add_daily_entry_for_test(L, sender, date, content) ==
  diary_add(L, sender, date, content)

\* permanent_diary keyed by timestamp (part_013): the entry function checks
\* the length and adds under now_seconds without removing first
add_daily_entry_by_timestamp(L, sender, content, now_seconds) ==
  journal_add(L, sender, now_seconds, content)

delete_daily_entry_by_unixtimestamp(L, sender, unix_timestamp) ==
  IF ~check_if_user_journal_object_exists(L, sender)
  THEN Abort("E_DIARY_NOT_FOUND")
  ELSE LET obj == L.registry[sender]
       IN IF ~Contains(L.journals[obj], unix_timestamp)
          THEN Abort("E_ENTRY_NOT_FOUND")
          ELSE Commit(L.registry,
                      [L.journals EXCEPT
                         ![obj] = MapRemove(@, unix_timestamp)],
                      DeleteJournalEntryEvent(obj, sender, unix_timestamp))

get_diary_content_by_date(L, user_address, date) ==
  IF ~Contains(L.registry, user_address) THEN None
  ELSE IF ~Contains(L.journals, L.registry[user_address]) THEN None
  ELSE LET entries == L.journals[L.registry[user_address]]
       IN IF Contains(entries, date) THEN Some(entries[date]) ELSE None

\* The view that reads an entry of the published contract
get(c, L, user, date) ==
  IF c = "journal" THEN get_journal_entry_by_date(L, user, date)
  ELSE get_diary_content_by_date(L, user, date)

(***************************************************************************)
(* Transactions on the ledger                                              *)
(***************************************************************************)
MaxTicks == 1

\* The ledger timestamps: two seconds of each day
ClockAt(i) == (i \div 2) * SecondsPerDay + (i % 2)
Dates == {ClockAt(i) : i \in 0..MaxTicks}

\* The dates a call can name: the timestamps the ledger has been through
DatesUpTo(t) == {d \in Dates : d <= t}

Users == {"alice", "bob"}

\* "journal" is decentralized_journal, "diary" the permanent_diary keyed by
\* timestamp, "daily" the permanent_diary keyed by the start of the day
Contracts == {"journal", "diary", "daily"}

\* Contents: one of the greatest allowed length and one longer
Content(text, length) == [text |-> text, length |-> length]
ContentInputs ==
  { Content("full", MAX_CONTENT_LENGTH),
    Content("long", MAX_CONTENT_LENGTH + 1) }

Ledger == [registry |-> registry, journals |-> journals]

\* The transaction `op` with result r takes effect, or aborts without effect;
\* lastCall keeps its arguments, what the key held before it, and its result
Transact(op, sender, key, content, r) ==
  /\ lastCall' = [op |-> op, sender |-> sender, key |-> key,
                  content |-> content,
                  before |-> get(contract, Ledger, sender, key),
                  ok |-> r.ok,
                  code |-> IF r.ok THEN "" ELSE r.code,
                  event |-> IF r.ok THEN r.event ELSE NoEvent]
  /\ registry' = IF r.ok THEN r.registry ELSE registry
  /\ journals' = IF r.ok THEN r.journals ELSE journals
  /\ UNCHANGED <<contract, now>>
  /\ UNCHANGED <<viewVars, scanVars, pageVars>>

LedgerInit ==
  /\ contract \in Contracts
  /\ now = 0
  /\ registry = EmptyMap
  /\ journals = EmptyMap
  /\ lastCall = NoCall
  /\ impl = "journal"
  /\ resolver = "plain"
  /\ moduleAddress = TRUE
  /\ tz = 0
  /\ pc = "start"
  /\ data = NotSettled
  /\ resolved = NotSettled
  /\ addressResult = Undef
  /\ resource = NotSettled
  /\ outcome = Pending
  /\ calls = <<>>
  /\ ScanIdle
  /\ PageIdle

\* the ledger's clock moves on
Tick ==
  /\ \E i \in 0..(MaxTicks - 1) : now = ClockAt(i) /\ now' = ClockAt(i + 1)
  /\ UNCHANGED <<contract, registry, journals, lastCall>>
  /\ UNCHANGED <<viewVars, scanVars, pageVars>>

\* add_journal_entry / add_daily_entry, signed by sender
AddEntry ==
  \E sender \in Users, content \in ContentInputs :
    CASE contract = "journal" ->
           Transact("add", sender, now, content,
                    add_journal_entry(Ledger, sender, content, now))
      [] contract = "diary" ->
           Transact("add", sender, now, content,
                    add_daily_entry_by_timestamp(Ledger, sender, content, now))
      [] contract = "daily" ->
           Transact("add", sender, (now \div SecondsPerDay) * SecondsPerDay,
                    content, add_daily_entry(Ledger, sender, content, now))

\* add_journal_for_test / add_daily_entry_for_test, with the date given
AddForTest ==
  \E sender \in Users, date \in DatesUpTo(now), content \in ContentInputs :
    Transact("add", sender, date, content,
             IF contract = "journal"
             THEN add_journal_for_test(Ledger, sender, date, content)
             ELSE add_daily_entry_for_test(Ledger, sender, date, content))

\* delete_journal_entry_by_unixtimestamp / delete_daily_entry_by_unixtimestamp,
\* signed by sender; the day-keyed diary has no delete
DeleteEntry ==
  /\ contract \in {"journal", "diary"}
  /\ \E sender \in Users, unix_timestamp \in DatesUpTo(now) :
       Transact("delete", sender, unix_timestamp, Content("", 0),
                IF contract = "journal"
                THEN delete_journal_entry_by_unixtimestamp(Ledger, sender,
                                                           unix_timestamp)
                ELSE delete_daily_entry_by_unixtimestamp(Ledger, sender,
                                                         unix_timestamp))

LedgerNext ==
  \/ Tick
  \/ AddEntry
  \/ AddForTest
  \/ DeleteEntry

LedgerSpec == LedgerInit /\ [][LedgerNext]_vars

(***************************************************************************)
(* Properties                                                              *)
(***************************************************************************)
Range(q) == {q[i] : i \in 1..Len(q)}

\* The resolver returned no usable address
NoUsableAddress(p) ==
  \/ p.thrown
  \/ IsNullish(p.val)
  \/ p.val.t = "obj" /\ ~Truthy(Get(p.val, "address"))

\* The catch blocks' not-found signal: status 404 or "not found" in the text
NotFoundSignal(error) ==
  Get(error, "status") = Num(404) \/ MessageIncludes(error, sNotFound)

\* C1: whenever the indexed lookup yields no usable address (no row, an empty
\* wrapper, or an exception), the retrieval issues the ledger address read
\* before it finishes; when that read returns an address the retrieval goes
\* on to the resource read with it; and the exception of the indexed query
\* never reaches the caller.
C1_FallbackOnMiss ==
  [][ /\ (pc = "indexed" /\ NoUsableAddress(resolved')) => pc' = "view"
      /\ (pc = "view" /\ Truthy(addressResult') /\ moduleAddress)
           => pc' = "resource"
      /\ (pc' = "done" /\ data'.thrown) => outcome' # Raised(data'.err)
    ]_vars

\* The {timestamp, message} pairs that the decode and unwrap steps of
\* application im recover from a resource
DecodedPairs(im, res) ==
  IF im = "journal"
  THEN LET parsed == extractEntriesFromNode(
                       Get(Get(res, "daily_entries"), "root"),
                       0, DefaultMaxDepth)
       IN IF parsed.thrown THEN {}
          ELSE {[timestamp |-> e.unixTimestamp, message |-> e.content] :
                  e \in Range(journalAssemble(parsed.val))}
  ELSE {[timestamp |-> e.key,
         message |-> diary_extractMessageFromEntry(e.value)] :
          e \in {x \in Range(parseBigOrderedMap(Get(res, "daily_entries"))) :
                   diary_extractMessageFromEntry(x.value) # Null}}

\* C2: round trip - a set of {timestamp, message} pairs with distinct
\* timestamps (0 and the empty message included), encoded as a single-leaf
\* root, is recovered exactly by the decode and unwrap steps.
C2_RoundTrip ==
  \A ps \in PairSeqs :
    (pc = "done" /\ Fulfilled(resource) /\ resource.val = EncodeLeafRoot(ps))
      => DecodedPairs(impl, resource.val)
           = {[timestamp |-> Num(p.timestamp), message |-> Str(p.message)] :
                p \in Range(ps)}

\* The positions of the date and of the time of day of an ISO date-time
IsoDay(ts) == (ts.year * 13 + ts.month) * 32 + ts.day

IsoTimeOfDay(ts) == (ts.hour * 60 + ts.minute) * 60 + ts.second

\* ISO date-time a is not earlier than b
IsoGeq(a, b) ==
  \/ IsoDay(a) > IsoDay(b)
  \/ IsoDay(a) = IsoDay(b) /\ IsoTimeOfDay(a) >= IsoTimeOfDay(b)

\* entry a carries a source key that is at least the source key of entry b
SourceKeyGeq(im, a, b) ==
  IF im = "journal"
  THEN /\ a.unixTimestamp.t = "num" /\ b.unixTimestamp.t = "num"
       /\ a.unixTimestamp.v >= b.unixTimestamp.v
  ELSE IsoGeq(a.timestamp, b.timestamp)

\* C3: every list that getEntries returns is ordered newest first by the
\* entries' source key: the key at position i is at least the key at every
\* later position j.
C3_NewestFirst ==
  (pc = "done" /\ outcome.kind = "list")
    => \A i, j \in 1..Len(outcome.list) :
         i < j => SourceKeyGeq(impl, outcome.list[i], outcome.list[j])

\* The raw pairs the tree decoder of application im returns for a resource
DecodedEntries(im, res) ==
  IF im = "journal"
  THEN extractEntriesFromNode(Get(Get(res, "daily_entries"), "root"),
                              0, DefaultMaxDepth)
  ELSE Ok(parseBigOrderedMap(Get(res, "daily_entries")))

\* C4: for a chain of nested internal nodes of any depth the tree decoder
\* returns normally, and no entry it returns lies more than maxDepth (20)
\* internal levels below the root.  In Chain(n) the key of an entry is the
\* depth of its leaf.
C4_DepthBounded ==
  \A n \in ChainDepths :
    (pc = "done" /\ Fulfilled(resource)
       /\ resource.val = Resource(BPlusTreeMap(Chain(n))))
      => /\ ~DecodedEntries(impl, resource.val).thrown
         /\ \A e \in Range(DecodedEntries(impl, resource.val).val) :
              e.key.t = "num" /\ e.key.v <= DefaultMaxDepth

\* C5: a node or entry that matches no known encoding contributes nothing
\* and does not abort the decode: getEntries returns a list, and the entry
\* (100, "hi") of the well-formed sibling is in it.
C5_MalformedSkipped ==
  \A r \in MalformedRoots :
    (pc = "done" /\ Fulfilled(resource)
       /\ resource.val = Resource(BPlusTreeMap(r)))
      => /\ outcome.kind = "list"
         /\ r \in MalformedBesideGood
              => /\ Len(outcome.list) = 1
                 /\ outcome.list[1].content = Str(sHi)
         /\ r \in MalformedAlone => outcome.list = <<>>

\* The value that stands for "no address" in the result of resolver rs
AbsentResult(rs) == IF rs = "legacy" THEN Null ELSE AddressNotFound

\* The indexed query returned data without a usable first row
NoRow(d, im) == ~Truthy(Get(FirstRow(d, im), AddressField(im)))

\* C6: the address resolver returns a result for every behaviour of the
\* indexed service, a thrown error included: its promise is never rejected,
\* and when the query failed or found no row the result is
\* {address: absent, source: not_found} (the bare null of the
\* string-returning resolver).
C6_ResolverNeverRaises ==
  pc \notin {"start", "indexed"}
    => /\ Fulfilled(resolved)
       /\ (data.thrown \/ NoRow(data.val, impl))
            => resolved.val = AbsentResult(resolver)

\* C6 witness: the indexed query threw and the resolver answered not_found
C6_Witness ==
  /\ pc = "done"
  /\ data.thrown
  /\ Fulfilled(resolved)
  /\ resolved.val = AddressNotFound

\* The address column of the first row the indexed query returned
IndexedField == Get(FirstRow(data.val, impl), AddressField(impl))

\* C7: in every result of the address resolver the address is present if and
\* only if the source is not not_found.
C7_AddressIffSource ==
  (Fulfilled(resolved) /\ resolver # "legacy")
    => /\ Get(resolved.val, "source") \in {Str(sGraphql), Str(sNotFoundSource)}
       /\ ~IsNullish(Get(resolved.val, "address"))
            <=> Get(resolved.val, "source") # Str(sNotFoundSource)

\* C7 witness: the row carried an empty wrapper, and the resolver answered
\* with no address and source not_found
C7_Witness ==
  /\ Fulfilled(resolved)
  /\ Fulfilled(data)
  /\ resolver = "normalizing"
  /\ IndexedField = Obj([vec |-> Arr(<<>>)])
  /\ Get(resolved.val, "address") = Null
  /\ Get(resolved.val, "source") = Str(sNotFoundSource)

\* C8: the resolver normalizes the address field - a bare string yields
\* itself, a wrapper with a non-empty vec yields the text of the first
\* element, anything else yields absent - so the address of a result is
\* absent or a plain string, never a wrapper object.
C8_AddressNormalized ==
  (Fulfilled(resolved) /\ Fulfilled(data) /\ resolver # "legacy")
    => LET a == Get(resolved.val, "address")
           f == IndexedField
           vec == Get(f, "vec")
       IN /\ a.t \in {"null", "str"}
          /\ (IsString(f) /\ Truthy(f)) => a = f
          /\ (IsArray(vec) /\ Len(vec.v) > 0)
               => a = Str(ToStringJS(vec.v[1]))
          /\ (~IsString(f) /\ ~(IsArray(vec) /\ Len(vec.v) > 0)) => a = Null

\* C9: with MODULE_ADDRESS unset every getEntries call fails with the
\* configuration error; it never returns a list.
C9_ConfigFault ==
  (pc = "done" /\ ~moduleAddress)
    => outcome = Raised(Error(sModuleAddressUndefined))

\* C10: when the ledger resource read fails with an error that is neither a
\* not-found signal nor a configuration fault, the caller still receives a
\* list and no exception.
C10_ReadFailureAbsorbed ==
  (pc = "done" /\ resource.thrown /\ ~NotFoundSignal(resource.err))
    => outcome.kind = "list"

\* C10 as amended: getJournalEntries rethrows a failure of the resource read
\* that is not a not-found signal and returns the empty list for one that
\* is; getDiaryEntries returns the empty list for every such failure.
C10_JournalRethrows ==
  (pc = "done" /\ resource.thrown)
    => IF impl = "journal" /\ ~NotFoundSignal(resource.err)
       THEN outcome = Raised(resource.err)
       ELSE outcome = Returned(<<>>)

\* C10 witness: the resource read of getJournalEntries failed with a network
\* error, which reached the caller
C10_Witness ==
  /\ pc = "done"
  /\ impl = "journal"
  /\ resource.thrown
  /\ resource.err = Error(sNetworkError)
  /\ outcome = Raised(Error(sNetworkError))

\* C11: when the ledger resource read signals not-found (status 404, or
\* "not found" in the error's message), getEntries returns the empty list
\* and raises nothing.
C11_NotFoundIsEmpty ==
  (pc = "done" /\ resource.thrown /\ NotFoundSignal(resource.err))
    => outcome = Returned(<<>>)

\* C11 witness: the resource read of getJournalEntries failed with status
\* 404 and the caller received the empty list
C11_Witness ==
  /\ pc = "done"
  /\ impl = "journal"
  /\ resource.thrown
  /\ Get(resource.err, "status") = Num(404)
  /\ outcome = Returned(<<>>)

\* The address variable of getEntries holds a usable address
UsableAddress(a) ==
  IF a.t = "obj" THEN Truthy(Get(a, "address")) ELSE Truthy(a)

\* C12: when address resolution has ended with no address, getEntries issues
\* no ledger resource read and returns the empty list.
C12_NoReadWithoutAddress ==
  (Fulfilled(resolved) /\ pc \notin {"indexed", "view"}
     /\ ~UsableAddress(addressResult))
    => /\ \A i \in 1..Len(calls) : calls[i] # "resource"
       /\ pc = "done" /\ outcome = Returned(<<>>)

\* C13: every entry that getEntries emits has a key that is a non-negative
\* integer - never NaN, never negative.
C13_KeyIsNatural ==
  (pc = "done" /\ outcome.kind = "list")
    => \A e \in Range(outcome.list) :
         IF impl = "journal"
         THEN e.unixTimestamp.t = "num" /\ e.unixTimestamp.v >= 0
         ELSE e.timestamp.year >= 1970

\* C14: every entry that getEntries emits has content that is a string.
C14_ContentIsString ==
  (pc = "done" /\ outcome.kind = "list")
    => \A e \in Range(outcome.list) : IsString(e.content)

\* The entry values of a resource whose root is a leaf
RawValues(res) ==
  LET root == Get(Get(res, "daily_entries"), "root")
      ents == Get(Get(root, "children"), "entries")
  IN IF Get(root, "is_leaf") = Bool(TRUE) /\ IsArray(ents)
     THEN {Get(e, "value") :
             e \in {x \in Range(ents.v) :
                      HasProp(x, "key") /\ HasProp(x, "value")}}
     ELSE {}

\* unwrap as application im applies it to a raw entry value
Unwrap(im, value) ==
  IF im = "journal" THEN extractMessageFromEntry(value)
  ELSE diary_extractMessageFromEntry(PeelLeaf(value))

\* A bare string, a leaf-wrapped value or a plain-text-message variant
KnownShape(v) ==
  \/ IsString(v)
  \/ StrEq(Get(v, "__variant__"), sLeaf)
  \/ StrEq(Get(v, "__variant__"), sMessageOnly)

\* The value exposes a message field, directly or under a MessageOnly key
HasMessageField(v) == HasProp(v, "message") \/ HasProp(v, "MessageOnly")

\* The keys of a resource whose root is a leaf, as the decoders coerce them
RawKeys(res) ==
  LET root == Get(Get(res, "daily_entries"), "root")
      ents == Get(Get(root, "children"), "entries")
  IN IF Get(root, "is_leaf") = Bool(TRUE) /\ IsArray(ents)
     THEN {CoerceKey(Get(e, "key")) :
             e \in {x \in Range(ents.v) :
                      HasProp(x, "key") /\ HasProp(x, "value")}}
     ELSE {}

\* When every key is a number, the entries of the returned list are those
\* whose unwrap is not absent
OthersReturned ==
  (RawValues(resource.val) # {} /\ NaN \notin RawKeys(resource.val))
    => /\ outcome.kind = "list"
       /\ {e.content : e \in Range(outcome.list)}
            = {Unwrap(impl, v) : v \in RawValues(resource.val)} \ {Null}

C16_CallsInOrder ==
  /\ calls \in {<<>>, <<"indexed">>, <<"indexed", "view">>,
                <<"indexed", "resource">>,
                <<"indexed", "view", "resource">>}
  /\ pc \notin {"start", "done"} => calls[Len(calls)] = pc
  /\ (\E i \in 1..Len(calls) : calls[i] = "view")
       => NoUsableAddress(resolved)
  /\ (\E i \in 1..Len(calls) : calls[i] = "resource")
       => UsableAddress(addressResult)

RECURSIVE Flatten(_)
\* the sequences of a sequence, appended in order
Flatten(ss) ==
  IF Len(ss) = 0 THEN <<>> ELSE Head(ss) \o Flatten(Tail(ss))

\* The keys of a decoded sequence, in order
KeysOf(es) == [i \in 1..Len(es) |-> es[i].key]

\* The children of an internal root, decoded one level down by the decoder
\* of getJournalEntries
ChildDecodes(root) ==
  LET items == Items(Get(Get(root, "children"), "entries"))
  IN [i \in 1..Len(items) |->
        IF Truthy(Get(items[i], "value"))
        THEN extractEntriesFromNode(Get(items[i], "value"), 1,
                                    DefaultMaxDepth)
        ELSE Ok(<<>>)]

\* dec is the concatenation, in child order, of the child decodes cd
ConcatenationLaw(dec, cd) ==
  (\A i \in 1..Len(cd) : ~cd[i].thrown)
    => dec = Flatten([i \in 1..Len(cd) |-> cd[i].val])

\* The order laws for a root and the sequence dec decoded from it
OrderLaws(im, root, dec) ==
  IF Get(root, "is_leaf") = Bool(TRUE)
  THEN \A q \in KeyOrders :
         root = LeafOfKeys(q) => KeysOf(dec) = [i \in 1..Len(q) |-> Num(q[i])]
  ELSE /\ \A q \in KeyOrders :
            root = TreeOfKeys(q)
              => KeysOf(dec) = [i \in 1..Len(q) |-> Num(q[i])]
       /\ \A n \in ChainDepths :
            root = Chain(n) => KeysOf(dec) = [i \in 1..Len(dec) |-> Num(i)]
       /\ (im = "journal" /\ IsArray(Get(Get(root, "children"), "entries")))
            => ConcatenationLaw(dec, ChildDecodes(root))

\* the order laws hold of a decode that returned
DecodeInOrder(im, root, decoded) ==
  decoded.thrown \/ OrderLaws(im, root, decoded.val)

\* C17: the decoder's output is the depth-first, left-to-right sequence of
\* leaf entries: a leaf yields its entries in their given order, and an
\* internal node yields the concatenation, in child order, of the decodes of
\* its children one level down.
C17_DepthFirstOrder ==
  (pc = "done" /\ Fulfilled(resource))
    => DecodeInOrder(impl, Get(Get(resource.val, "daily_entries"), "root"),
                     DecodedEntries(impl, resource.val))

\* C17 witness: a two-level tree whose children hold the keys 200, 100, 300
\* in that order was decoded by getJournalEntries
C17_Witness ==
  /\ pc = "done"
  /\ impl = "journal"
  /\ Fulfilled(resource)
  /\ resource.val = Resource(BPlusTreeMap(TreeOfKeys(<<200, 100, 300>>)))
  /\ outcome.kind = "list"
  /\ Len(outcome.list) = 3

\* A successful add was the last transaction
IsAdd(call) == call.op = "add" /\ call.ok

\* The ledger after the step
LedgerAfter == [registry |-> registry', journals |-> journals']

\* An entry that get did not return before the step and returns after it is
\* the entry a successful add of that user under that key has just stored
EntriesOnlyByAdd ==
  \A user \in Users, d \in Dates :
    (/\ ~get(contract, Ledger, user, d).some
     /\ get(contract, LedgerAfter, user, d).some)
      => /\ IsAdd(lastCall')
         /\ lastCall'.sender = user
         /\ lastCall'.key = d

\* After a successful add of c under d by a user get(user, d) is some(c), and
\* a user without a journal has no entry under any key
AddedIsRead ==
  /\ IsAdd(lastCall) =>
       get(contract, Ledger, lastCall.sender, lastCall.key)
         = Some(lastCall.content)
  /\ \A user \in Users, d \in Dates :
       ~Contains(registry, user) => get(contract, Ledger, user, d) = None

\* C18: right after a user adds content c under key d - the first add having
\* created the journal - get(user, d) returns some(c); get returns none for a
\* user who has no journal and for a key that user never added (an entry
\* appears only by an add of that user under that key).
C18_ReadReflectsAdd == []AddedIsRead /\ [][EntriesOnlyByAdd]_vars

\* A first add has created the journal of its sender and is read back, while
\* the other user has no journal and the sender has a key without an entry
C18_Witness ==
  /\ IsAdd(lastCall)
  /\ ~lastCall.before.some
  /\ Cardinality(DOMAIN journals[registry[lastCall.sender]]) = 1
  /\ get(contract, Ledger, lastCall.sender, lastCall.key)
       = Some(lastCall.content)
  /\ \E user \in Users : ~Contains(registry, user)
  /\ \E d \in Dates : ~get(contract, Ledger, lastCall.sender, d).some

\* C19: a step that is a successful delete of (user, t) leaves get(user, t)
\* none and every other entry of that user as it was.
C19_DeleteRemovesOnlyThat ==
  [][(lastCall'.op = "delete" /\ lastCall'.ok /\ now' = now) =>
       /\ get(contract, LedgerAfter, lastCall'.sender, lastCall'.key) = None
       /\ \A d \in Dates \ {lastCall'.key} :
            get(contract, LedgerAfter, lastCall'.sender, d)
              = get(contract, Ledger, lastCall'.sender, d)]_vars

\* A delete has removed an entry of a journal that holds another entry
C19_Witness ==
  /\ lastCall.op = "delete"
  /\ lastCall.ok
  /\ lastCall.before.some
  /\ ~get(contract, Ledger, lastCall.sender, lastCall.key).some
  /\ \E d \in Dates \ {lastCall.key} :
       get(contract, Ledger, lastCall.sender, d).some

\* C20: in the diary contracts an add under a key that already holds an
\* entry of that user succeeds, and get(user, d) returns the new content.
C20_AddOverwrites ==
  (/\ contract \in {"diary", "daily"}
   /\ lastCall.op = "add"
   /\ lastCall.before.some)
    => /\ lastCall.ok
       /\ get(contract, Ledger, lastCall.sender, lastCall.key)
            = Some(lastCall.content)

\* What a user holds on the ledger: the registry entry and every entry read
Holdings(L, user) ==
  [registered |-> Contains(L.registry, user),
   entries |-> [d \in Dates |-> get(contract, L, user, d)]]

\* C21: whatever a step changes of a user's holdings - the registration or
\* an entry added, changed or deleted - the step is a transaction signed by
\* that user; a call signed by one user changes nothing of another user.
C21_OwnCallsOnly ==
  [][\A user \in Users :
       Holdings(LedgerAfter, user) # Holdings(Ledger, user)
         => /\ now' = now
            /\ lastCall'.sender = user
            /\ lastCall'.ok]_vars

\* One user has deleted an entry while the other user holds entries
C21_Witness ==
  /\ contract = "journal"
  /\ lastCall.op = "delete"
  /\ lastCall.ok
  /\ \E other \in Users \ {lastCall.sender}, d \in Dates :
       get(contract, Ledger, other, d).some

\* C26: every step of add_journal_entry / add_daily_entry (the contracts that
\* have MAX_CONTENT_LENGTH) succeeds when the content is at most
\* MAX_CONTENT_LENGTH long and aborts, with E_CONTENT_TOO_LONG, only when it
\* is longer.
C26_AddAbortsOnlyTooLong ==
  [][(contract \in {"journal", "diary"} /\ AddEntry) =>
       /\ lastCall'.ok <=> lastCall'.content.length <= MAX_CONTENT_LENGTH
       /\ ~lastCall'.ok => lastCall'.code = "E_CONTENT_TOO_LONG"]_vars

\* C27: a step of delete_journal_entry_by_unixtimestamp whose signer has no
\* journal aborts with E_USER_JOURNAL_OBJECT_DOES_NOT_EXIST, one whose
\* signer's journal has no entry at the timestamp aborts with
\* E_JOURNAL_ENTRY_NOT_FOUND; both leave the registry and every journal
\* unchanged and emit no event.
C27_DeleteAborts ==
  [][(contract = "journal" /\ lastCall'.op = "delete" /\ now' = now) =>
       LET sender == lastCall'.sender
           aborted(code) ==
             /\ ~lastCall'.ok
             /\ lastCall'.code = code
             /\ registry' = registry
             /\ journals' = journals
             /\ lastCall'.event = NoEvent
       IN /\ ~Contains(registry, sender)
               => aborted("E_USER_JOURNAL_OBJECT_DOES_NOT_EXIST")
          /\ (/\ Contains(registry, sender)
              /\ ~Contains(journals[registry[sender]], lastCall'.key))
               => aborted("E_JOURNAL_ENTRY_NOT_FOUND")]_vars

\* A delete has aborted on a missing entry of a journal that holds another
\* entry, while the other user, who has no journal, could only get the other
\* abort
C27_Witness ==
  /\ contract = "journal"
  /\ lastCall.op = "delete"
  /\ lastCall.code = "E_JOURNAL_ENTRY_NOT_FOUND"
  /\ journals[registry[lastCall.sender]] # EmptyMap
  /\ \E user \in Users : ~Contains(registry, user)

\* Every registered user has a journal object of their own, and the signer
\* of a successful add is registered
RegistryInv ==
  /\ \A u \in DOMAIN registry :
       /\ registry[u] \in DOMAIN journals
       /\ \A v \in DOMAIN registry : registry[u] = registry[v] => u = v
  /\ IsAdd(lastCall) => Contains(registry, lastCall.sender)

\* A registered user stays registered at the same object, and a user is
\* registered only by a successful add of their own
RegistryStep ==
  \A u \in Users :
    /\ Contains(registry, u)
         => Contains(registry', u) /\ registry'[u] = registry[u]
    /\ (~Contains(registry, u) /\ Contains(registry', u))
         => IsAdd(lastCall') /\ lastCall'.sender = u

\* C29: a user is in the registry exactly when that user has completed a
\* successful add; each registered user maps to one journal object of their
\* own, which holds a journal and whose address never changes; no delete,
\* even of the last entry, unregisters the user or removes the object.
C29_RegistryInvariant == []RegistryInv /\ [][RegistryStep]_vars

\* A user has deleted their last entry and is still registered, with an
\* empty journal
C29_Witness ==
  /\ contract = "journal"
  /\ lastCall.op = "delete"
  /\ lastCall.ok
  /\ Contains(registry, lastCall.sender)
  /\ journals[registry[lastCall.sender]] = EmptyMap

\* The entries of a leaf root, and those among them that have both fields
LeafItems(res) ==
  LET root == Get(Get(res, "daily_entries"), "root")
      ents == Get(Get(root, "children"), "entries")
  IN IF Get(root, "is_leaf") = Bool(TRUE) /\ IsArray(ents)
     THEN ents.v ELSE <<>>

PresentItems(res) ==
  SelectSeq(LeafItems(res),
            LAMBDA e : HasProp(e, "key") /\ HasProp(e, "value"))

\* C22: for a leaf root the decoder returns one pair for every entry that
\* has a key field and a value field, in order, whatever the key and the
\* value are (0, "", false included), and nothing for the other entries.
C22_LeafEmitsPresent ==
  (pc = "done" /\ Fulfilled(resource) /\ LeafItems(resource.val) # <<>>)
    => /\ ~DecodedEntries(impl, resource.val).thrown
       /\ KeysOf(DecodedEntries(impl, resource.val).val)
            = [i \in 1..Len(PresentItems(resource.val)) |->
                 CoerceKey(Get(PresentItems(resource.val)[i], "key"))]

\* The message a recognized value carries: a bare string itself, the message
\* of a MessageOnly variant, directly or inside one Leaf wrapper
Recognized(v) ==
  \/ IsString(v)
  \/ \E m \in {<<>>, sHi, sHello} : v \in {MessageOnly(m), LeafValue(m)}

CarriedMessage(v) ==
  IF IsString(v) THEN v
  ELSE IF StrEq(Get(v, "__variant__"), sLeaf)
  THEN Get(Get(v, "value"), "message")
  ELSE Get(v, "message")

\* C23: unwrap returns the message string of every recognized value, the
\* empty string included.
C23_UnwrapRecognized ==
  (pc = "done" /\ Fulfilled(resource))
    => \A v \in RawValues(resource.val) :
         Recognized(v) => Unwrap(impl, v) = CarriedMessage(v)

\* C24: a map payload that is a sequence of [key, value] pairs and
\* {key, value} objects is decoded: getEntries lists one entry for every
\* element, with the pairs a tree-encoded map of the same entries gives.
C24_FlatDecoded ==
  \A ps \in PairSeqs :
    (pc = "done" /\ Fulfilled(resource) /\ resource.val = EncodeFlat(ps))
      => /\ outcome.kind = "list"
         /\ Len(outcome.list) = Len(ps)
         /\ DecodedPairs(impl, resource.val)
              = DecodedPairs("diary", EncodeLeafRoot(ps))

\* The map payload has no root and is not a sequence
NoKnownEncoding(mapData) ==
  ~HasProp(mapData, "root") /\ ~IsArray(mapData)

\* C25: a map payload that exposes only an opaque handle, or that has no
\* root field and is not a sequence, is decoded to no entry, and getEntries
\* returns the empty list without raising.
C25_UnknownEncodingIsEmpty ==
  (pc = "done" /\ Fulfilled(resource)
     /\ NoKnownEncoding(Get(resource.val, "daily_entries")))
    => /\ DecodedEntries(impl, resource.val) = Ok(<<>>)
       /\ outcome = Returned(<<>>)

\* The payload {handle: "0xABC"} was read and the empty list returned
C25_Witness ==
  /\ pc = "done"
  /\ Fulfilled(resource)
  /\ resource.val = Resource(Obj([handle |-> Str(s0xABC)]))
  /\ outcome = Returned(<<>>)

(***************************************************************************)
(* getDiaryEntries.ts: getDiaryEntries reads the AddDailyEntryEvent events *)
(* of the diary object and, without them, asks for each recent date        *)
(***************************************************************************)
daysToCheck == 30
batchSize == 5

\* At most MaxNotable view calls of one run settle with a content or an error
MaxNotable == 2

Min(a, b) == IF a < b THEN a ELSE b

s429 == <<"4", "2", "9">>
sTooManyRequests ==
  <<"T", "o", "o", " ", "M", "a", "n", "y", " ", "R", "e", "q", "u", "e",
    "s", "t", "s">>
sNotAFunction ==
  <<"n", "o", "t", " ", "a", " ", "f", "u", "n", "c", "t", "i", "o", "n">>
s0xabc == <<"0", "x", "a", "b", "c">>
s20240301 == <<"2", "0", "2", "4", "0", "3", "0", "1">>
s20240302 == <<"2", "0", "2", "4", "0", "3", "0", "2">>

\* The user whose diary is read
userAddress == Str(s0xABC)

\* String.prototype.toLowerCase on the letters of an address
toLowerCase(str) ==
  [i \in 1..Len(str) |->
     CASE str[i] = "A" -> "a" [] str[i] = "B" -> "b" [] str[i] = "C" -> "c"
       [] str[i] = "D" -> "d" [] str[i] = "E" -> "e" [] str[i] = "F" -> "f"
       [] str[i] = "O" -> "o" [] OTHER -> str[i]]

\* lines 46-63: an event of this user becomes an entry, any other event null;
\* data.user_address.toLowerCase() throws when the field is not a string
eventEntry(event) ==
  LET evData == Get(event, "data")
  IN IF ~IsString(Get(evData, "user_address"))
     THEN Throw(Error(sNotAFunction))
     ELSE IF toLowerCase(Get(evData, "user_address").v) = toLowerCase(userAddress.v)
          THEN Ok([date |-> parseInt(Get(evData, "date").v),
                   content |-> Get(evData, "content"),
                   timestamp |-> Get(event, "sequence_number")])
          ELSE Ok(Null)

\* events.map(...).filter(entry => entry !== null)
eventEntries(events) ==
  IF \E i \in 1..Len(events) : eventEntry(events[i]).thrown
  THEN Throw(Error(sNotAFunction))
  ELSE Ok(SelectSeq([i \in 1..Len(events) |-> eventEntry(events[i]).val],
                    LAMBDA e : e # Null))

\* entries.sort((a, b) => b.date - a.date)
sortedByDate(list) ==
  {Reorder(list, order) :
     order \in SortOrders([i \in 1..Len(list) |-> list[i].date])}

\* lines 85-90: the date i days before today, as the number YYYYMMDD
dateNum(day, i) == unixSecondsToYYYYMMDD(Num((day - i) * SecondsPerDay), 0)

\* lines 93-110: the promise pushed for one view call that settled as p;
\* .then turns the content into an entry or null, .catch turns every
\* rejection into null
viewPromise(p, date) ==
  IF p.thrown THEN Ok(Null)
  ELSE IF p.val.v[1] # Null
       THEN Ok([date |-> date, content |-> p.val.v[1]])
       ELSE Ok(Null)

\* Promise.all: the values in order, or the reason of a rejected promise
PromiseAll(promises) ==
  IF \E i \in 1..Len(promises) : promises[i].thrown
  THEN {Throw(promises[i].err) :
          i \in {j \in 1..Len(promises) : promises[j].thrown}}
  ELSE {Ok([i \in 1..Len(promises) |-> promises[i].val])}

\* line 119: the test of the batch's catch block
isRateLimit(batchError) ==
  Get(batchError, "status") = Num(429) \/ MessageIncludes(batchError, s429)

\* The days today can be: 2024-03-02 and 2024-01-03
Todays == {19784, 19725}

\* What the address view call returns as result[0]
ScanAddressInputs == {Null, Str(<<>>), Str(s0xABC)}

Event(user, date, content) ==
  Obj([data |-> Obj([user_diary_object_address |-> Str(s0xABC),
                     user_address |-> user, date |-> Str(date),
                     content |-> Str(content)]),
       sequence_number |-> Str(<<"7">>)])

\* What getEventsByEventHandle returns
EventInputs ==
  { <<>>,
    <<Event(Str(s0xabc), s20240301, sHi)>>,
    <<Event(Str(s0xABC), s20240301, sHi), Event(Str(s0xabc), s20240302, sHello)>>,
    <<Event(Str(sOther), s20240301, sHi)>>,
    <<Event(Undef, s20240301, sHi)>> }

\* How one get_diary_content_by_date view call can settle
ViewOutcomes ==
  { Ok(Arr(<<Null>>)), Ok(Arr(<<Str(sHi)>>)),
    Throw(ApiError(429, sTooManyRequests)), Throw(Error(sNetworkError)) }

\* The view calls that settled with a content or an error
Notable(settled) ==
  Len(SelectSeq(settled, LAMBDA p : p # NotSettled /\ p # Ok(Arr(<<Null>>))))

ViewIdle ==
  /\ impl = "journal"
  /\ resolver = "plain"
  /\ moduleAddress = TRUE
  /\ tz = 0
  /\ pc = "start"
  /\ data = NotSettled
  /\ resolved = NotSettled
  /\ addressResult = Undef
  /\ resource = NotSettled
  /\ outcome = Pending
  /\ calls = <<>>

LedgerIdle ==
  /\ contract = "journal"
  /\ now = 0
  /\ registry = EmptyMap
  /\ journals = EmptyMap
  /\ lastCall = NoCall

\* getDiaryEntries(userAddress) is called: it awaits the address view call
ScanInit ==
  /\ scanPc = "address"
  /\ today \in Todays
  /\ batchStart = 0
  /\ entriesFound = <<>>
  /\ viewCalls = <<>>
  /\ rateLimited = {}
  /\ scanResult = Pending
  /\ ViewIdle
  /\ LedgerIdle
  /\ PageIdle

\* return list
ScanReturn(list) ==
  /\ scanPc' = "done"
  /\ scanResult' = Returned(list)

\* lines 82-114: the view calls of the batch at start are issued and
\* Promise.all is awaited
IssueBatch(start) ==
  /\ scanPc' = "batch"
  /\ batchStart' = start
  /\ viewCalls' = viewCalls \o
       [i \in 1..(Min(start + batchSize, daysToCheck) - start) |-> NotSettled]
  /\ UNCHANGED <<today, entriesFound, rateLimited, scanResult>>

\* the address view call resolves: without an address the result is empty
ScanAddressReturns ==
  /\ scanPc = "address"
  /\ \E r \in ScanAddressInputs :
       IF Truthy(r)
       THEN scanPc' = "events" /\ UNCHANGED scanResult
       ELSE ScanReturn(<<>>)
  /\ UNCHANGED <<today, batchStart, entriesFound, viewCalls, rateLimited>>
  /\ UNCHANGED <<viewVars, ledgerVars, pageVars>>

\* the address view call throws: getDiaryObjectAddress returns null
ScanAddressThrows ==
  /\ scanPc = "address"
  /\ ScanReturn(<<>>)
  /\ UNCHANGED <<today, batchStart, entriesFound, viewCalls, rateLimited>>
  /\ UNCHANGED <<viewVars, ledgerVars, pageVars>>

\* getEventsByEventHandle resolves: the events are the result, unless there
\* are none or reading one throws
ScanEventsReturn ==
  /\ scanPc = "events"
  /\ \E events \in EventInputs :
       IF Len(events) > 0 /\ ~eventEntries(events).thrown
       THEN /\ \E list \in sortedByDate(eventEntries(events).val) :
                 ScanReturn(list)
            /\ UNCHANGED <<today, batchStart, entriesFound, viewCalls,
                           rateLimited>>
       ELSE IssueBatch(0)
  /\ UNCHANGED <<viewVars, ledgerVars, pageVars>>

\* getEventsByEventHandle throws: the fallback starts
ScanEventsThrow ==
  /\ scanPc = "events"
  /\ IssueBatch(0)
  /\ UNCHANGED <<viewVars, ledgerVars, pageVars>>

\* The ways the view calls of a batch of n calls can settle when at most k
\* of them settle with a content or an error
BatchOutcomes(n, k) ==
  UNION { { [i \in 1..n |-> IF i \in pos THEN kinds[i] ELSE Ok(Arr(<<Null>>))] :
              kinds \in [pos -> ViewOutcomes \ {Ok(Arr(<<Null>>))}] } :
          pos \in {q \in SUBSET (1..n) : Cardinality(q) <= k} }

\* lines 113-128 and 131-133: the view calls of the batch have settled as
\* outs; the entries are collected, and the loop waits, stops or ends
BatchSettles ==
  /\ scanPc = "batch"
  /\ \E k \in {MaxNotable - Notable(viewCalls)} :
     \E outs \in BatchOutcomes(Len(viewCalls) - batchStart, k) :
       LET batchPromises ==
             [i \in 1..Len(outs) |->
                viewPromise(outs[i], dateNum(today, batchStart + i - 1))]
       IN /\ viewCalls' = SubSeq(viewCalls, 1, batchStart) \o outs
          /\ rateLimited' =
               IF \E i \in 1..Len(outs) :
                    outs[i].thrown /\ Get(outs[i].err, "status") = Num(429)
               THEN rateLimited \cup {batchStart}
               ELSE rateLimited
          /\ \E batchResults \in PromiseAll(batchPromises) :
               /\ entriesFound' =
                    IF batchResults.thrown THEN entriesFound
                    ELSE entriesFound \o
                           SelectSeq(batchResults.val, LAMBDA e : e # Null)
               /\ IF /\ ~(batchResults.thrown /\ isRateLimit(batchResults.err))
                     /\ batchStart + batchSize < daysToCheck
                  THEN scanPc' = "delay" /\ UNCHANGED scanResult
                  ELSE \E list \in sortedByDate(entriesFound') :
                         ScanReturn(list)
  /\ UNCHANGED <<today, batchStart>>
  /\ UNCHANGED <<viewVars, ledgerVars, pageVars>>

\* the delay between two batches is over: the next batch is issued
DelayElapses ==
  /\ scanPc = "delay"
  /\ IssueBatch(batchStart + batchSize)
  /\ UNCHANGED <<viewVars, ledgerVars, pageVars>>

ScanNext ==
  \/ ScanAddressReturns
  \/ ScanAddressThrows
  \/ ScanEventsReturn
  \/ ScanEventsThrow
  \/ BatchSettles
  \/ DelayElapses

ScanSpec == ScanInit /\ [][ScanNext]_vars

\* C28: in the date-by-date fallback, once a view call of a batch has failed
\* with status 429 no further batch is issued: every view call issued
\* belongs to a batch that starts no later than each rate-limited batch
C28_StopsAfterRateLimit ==
  \A b \in rateLimited : Len(viewCalls) <= b + batchSize

(***************************************************************************)
(* view/page.tsx: handleDelete and the deletingTimestamps state            *)
(***************************************************************************)
\* The page lists MaxListed entries when it is mounted
MaxListed == 2

PageTimestamps == 1..MaxListed

\* line 119: setDeletingTimestamps((prev) => new Set(prev).add(unixTimestamp))
markDeleting(prev, unixTimestamp) == prev \cup {unixTimestamp}

\* an update that replaces the set instead of deriving it from prev
unmarkDeleting_clearing(prev, unixTimestamp) == {}

\* lines 145-149: the update of the finally block
unmarkDeleting(prev, unixTimestamp) == prev \ {unixTimestamp}

\* The attempts that are awaiting a call
PendingAttempts == {ts \in PageTimestamps : attempt[ts] # "idle"}

\* lines 138-151: the attempt on unixTimestamp ends (after the catch block
\* when a call has thrown): the finally block takes the timestamp out
EndAttempt(unixTimestamp, how) ==
  /\ deletingTimestamps' = unmarkDeleting(deletingTimestamps, unixTimestamp)
  /\ attempt' = [attempt EXCEPT ![unixTimestamp] = "idle"]
  /\ ended' = [how |-> how, unixTimestamp |-> unixTimestamp,
                others |-> PendingAttempts \ {unixTimestamp}]

\* The page is mounted with its entries fetched
PageInit ==
  /\ account \in BOOLEAN
  /\ listed = PageTimestamps
  /\ chain = PageTimestamps
  /\ deletingTimestamps = {}
  /\ attempt = [ts \in PageTimestamps |-> "idle"]
  /\ ended = [how |-> "never"]
  /\ ViewIdle
  /\ LedgerIdle
  /\ ScanIdle

\* the wallet connects or disconnects
WalletChanges ==
  /\ account' = ~account
  /\ UNCHANGED <<listed, chain, deletingTimestamps, attempt, ended>>
  /\ UNCHANGED <<viewVars, ledgerVars, scanVars>>

\* lines 109-125: the delete button of a listed entry is clicked; the button
\* is disabled while the entry is marked as deleting. Without an account
\* the handler returns, else it marks the entry and awaits the wallet
handleDelete(unixTimestamp) ==
  /\ unixTimestamp \in listed
  /\ unixTimestamp \notin deletingTimestamps
  /\ attempt[unixTimestamp] = "idle"
  /\ IF account
     THEN /\ deletingTimestamps' = markDeleting(deletingTimestamps, unixTimestamp)
          /\ attempt' = [attempt EXCEPT ![unixTimestamp] = "signing"]
          /\ UNCHANGED ended
     ELSE /\ ended' = [how |-> "noAccount", unixTimestamp |-> unixTimestamp,
                         others |-> PendingAttempts]
          /\ UNCHANGED <<deletingTimestamps, attempt>>
  /\ UNCHANGED <<account, listed, chain>>
  /\ UNCHANGED <<viewVars, ledgerVars, scanVars>>

\* lines 122-130: signAndSubmitTransaction settles; on success the handler
\* awaits waitForTransaction
SignSettles(unixTimestamp) ==
  /\ attempt[unixTimestamp] = "signing"
  /\ \/ /\ attempt' = [attempt EXCEPT ![unixTimestamp] = "confirming"]
        /\ UNCHANGED <<deletingTimestamps, ended>>
     \/ EndAttempt(unixTimestamp, "signFailed")
  /\ UNCHANGED <<account, listed, chain>>
  /\ UNCHANGED <<viewVars, ledgerVars, scanVars>>

\* lines 128-137: waitForTransaction settles; the transaction succeeds only
\* when the journal still holds the entry, and then the handler awaits refetch
ConfirmSettles(unixTimestamp) ==
  /\ attempt[unixTimestamp] = "confirming"
  /\ \/ /\ unixTimestamp \in chain
        /\ chain' = chain \ {unixTimestamp}
        /\ attempt' = [attempt EXCEPT ![unixTimestamp] = "refetching"]
        /\ UNCHANGED <<deletingTimestamps, ended>>
     \/ /\ EndAttempt(unixTimestamp, "confirmFailed")
        /\ UNCHANGED chain
  /\ UNCHANGED <<account, listed>>
  /\ UNCHANGED <<viewVars, ledgerVars, scanVars>>

\* lines 137-151: refetch settles; a successful one lists the entries the
\* journal holds, or none without an account (lines 66-70)
RefetchSettles(unixTimestamp) ==
  /\ attempt[unixTimestamp] = "refetching"
  /\ \/ /\ listed' = IF account THEN chain ELSE {}
        /\ EndAttempt(unixTimestamp, "deleted")
     \/ /\ EndAttempt(unixTimestamp, "refetchFailed")
        /\ UNCHANGED listed
  /\ UNCHANGED <<account, chain>>
  /\ UNCHANGED <<viewVars, ledgerVars, scanVars>>

PageNext ==
  \/ WalletChanges
  \/ \E ts \in PageTimestamps : handleDelete(ts)
  \/ \E ts \in PageTimestamps : SignSettles(ts)
  \/ \E ts \in PageTimestamps : ConfirmSettles(ts)
  \/ \E ts \in PageTimestamps : RefetchSettles(ts)

PageSpec == PageInit /\ [][PageNext]_vars

\* Every call a handleDelete awaits settles: the wallet answers or rejects,
\* waitForTransaction returns or times out, the refetch resolves
PageLiveSpec ==
  /\ PageSpec
  /\ \A ts \in PageTimestamps :
       /\ WF_vars(SignSettles(ts))
       /\ WF_vars(ConfirmSettles(ts))
       /\ WF_vars(RefetchSettles(ts))

\* the timestamps marked as deleting are those of the pending attempts
MarkedWhilePending == deletingTimestamps = PendingAttempts

\* a step that ends the attempt on a timestamp takes that timestamp, and no
\* other, out of deletingTimestamps
EndRemovesOwnFlag ==
  \A ts \in PageTimestamps :
    (attempt[ts] # "idle" /\ attempt'[ts] = "idle")
      => deletingTimestamps' = deletingTimestamps \ {ts}

====
